---- MODULE Spec2Model ----
(***************************************************************************)
(* sqlite-cloud-backup: the synchronisation engine (SyncEngine) acting on  *)
(* one local database file (DatabaseManager) and one remote copy reached   *)
(* through the BaseProvider contract (the in-memory provider of the unit   *)
(* tests).  One engine, called sequentially: every operation is one step.  *)
(* The caller looks at one outcome at a time (last) and forgets it before  *)
(* it does anything else, except that it may call sync() again at once.    *)
(***************************************************************************)
EXTENDS Integers, Sequences, FiniteSets, TLC

\* ---------------------------------------------------------------- bounds
NumBuffers == 2   \* distinct contents the database file can have
MaxTime == 1      \* last tick of the wall clock

\* ------------------------------------------------------------- constants
HexLen == 2       \* hex digits of a digest (64 in the code, scaled down)
HexBase == 16
SchemaVersion == 1

Byte == {1, 2}
Times == 0..MaxTime

\* The k-th byte sequence, shortest first: <<>>, <<1>>, <<2>>, <<1, 1>>, ...
RECURSIVE BufferOf(_)
BufferOf(k) ==
  IF k = 0 THEN <<>>
  ELSE LET d == IF k % 2 = 1 THEN 1 ELSE 2
       IN Append(BufferOf((k - d) \div 2), d)

Buffers == {BufferOf(k) : k \in 0..(NumBuffers - 1)}

\* An optional value (T | null) is a sequence of at most one element.
Null == <<>>
Some(x) == <<x>>
IsNull(o) == Len(o) = 0
Get(o) == o[1]

\* ------------------------------------------------------------ ChecksumUtil
\* hash.digest('hex'): the hash state printed as HexLen hexadecimal digits.
RECURSIVE HexDigits(_, _)
HexDigits(h, n) ==
  IF n = 0 THEN <<>> ELSE Append(HexDigits(h \div HexBase, n - 1), h % HexBase)

HashModulus == 256

\* hash.update(data): fold the bytes of one chunk into the hash state.
RECURSIVE HashUpdate(_, _)
HashUpdate(h, data) ==
  IF Len(data) = 0 THEN h
  ELSE HashUpdate((h * (Cardinality(Byte) + 1) + Head(data)) % HashModulus, Tail(data))

calculateBufferChecksum(buffer) == HexDigits(HashUpdate(0, buffer), HexLen)

\* The read stream delivers the file in chunks; each 'data' event updates
\* the hash, 'end' prints it.
ChunkSize == 1
RECURSIVE StreamHash(_, _)
StreamHash(h, rest) ==
  IF Len(rest) = 0 THEN h
  ELSE LET n == IF Len(rest) < ChunkSize THEN Len(rest) ELSE ChunkSize
       IN StreamHash(HashUpdate(h, SubSeq(rest, 1, n)), SubSeq(rest, n + 1, Len(rest)))

\* as calculateFileChecksum, but 'end' arrives before the last chunk is hashed
calculateFileChecksum_DropsLastChunk(fileBytes) ==
  HexDigits(StreamHash(0, SubSeq(fileBytes, 1, Len(fileBytes) - 1)), HexLen)

calculateFileChecksum(fileBytes) == HexDigits(StreamHash(0, fileBytes), HexLen)

\* as verifyChecksum, but a digest that does not match makes it throw
verifyChecksum_ThrowsOnMismatch(file, expectedChecksum) ==
  IF Len(file) = 0 \/ calculateFileChecksum(file[1]) # expectedChecksum
  THEN [threw |-> TRUE, ok |-> FALSE]
  ELSE [threw |-> FALSE, ok |-> TRUE]

\* verifyChecksum: [threw, ok]; file is the bytes at filePath in a sequence
\* of one, or the empty sequence when no file is there (the stream errors)
verifyChecksum(file, expectedChecksum) ==
  IF Len(file) = 0 THEN [threw |-> TRUE, ok |-> FALSE]
  ELSE [threw |-> FALSE, ok |-> (calculateFileChecksum(file[1]) = expectedChecksum)]

\* ------------------------------------------------------------------ state
VARIABLES
  files,      \* MockProvider.files: Map<string, Buffer>, a function name -> bytes
  metadata,   \* MockProvider.metadata: SyncMetadata | null
  dbFile,     \* bytes of the file at dbPath, Null when no file is there
  mtime,      \* its modification time (stats.mtimeMs)
  tmpFile,    \* bytes of the file at dbPath + '.tmp', Null when not there
  metaFile,   \* text of the local metadata.json, Null when not there
  db,         \* DatabaseManager.db: TRUE when a handle is open
  now,        \* Date.now()
  last,       \* the outcome the caller is looking at: what the call did and returned
  handles,    \* Database handles open on the file at dbPath
  run,        \* the DatabaseManager / FileOperations call made on its own: where it is
  persisted,  \* what the updates of the local record written in full so far amount
              \* to, field by field; Null when there was none
  drive,      \* the files and folders of the Google Drive account, by file id
  rootFolderId, \* GoogleDriveProvider.rootFolderId: string | null
  seen,       \* the provider call made last: what it was given, did and returned
  tokenFile,  \* text of tokens.json, Null when not there
  credentials,   \* SqliteCloudBackup.credentials.refreshToken, Null for undefined
  providerToken, \* the refresh token the current provider was constructed with
  did,        \* the facade or TokenStorage call made last
  saved,      \* the tokens last saved and not cleared since, as they were given
  authenticated, \* an authenticate() has succeeded and logout() was not called since
  oauthFlow   \* an OAuthFlow, its promises and timers, and port 3000

vars == <<files, metadata, dbFile, mtime, tmpFile, metaFile, db, now, last,
          handles, run, persisted, drive, rootFolderId, seen,
          tokenFile, credentials, providerToken, did, saved, authenticated,
          oauthFlow>>

\* the token file, the facade and its OAuthFlow
auth == <<tokenFile, credentials, providerToken, did, saved, authenticated, oauthFlow>>

\* the Google Drive account and the provider working on it, and the
\* authentication
outside == <<drive, rootFolderId, seen, auth>>

\* what the engine's operations leave alone
store == <<handles, run, persisted, outside>>

\* The part of the state the operations read and write, as one record.
State ==
  [files |-> files, metadata |-> metadata, dbFile |-> dbFile, mtime |-> mtime,
   tmpFile |-> tmpFile, metaFile |-> metaFile, db |-> db, now |-> now]

\* A fault names the one awaited step of a call that rejects, <<scope, step>>;
\* NoFault lets every step succeed.
NoFault == <<"none", "none">>
Fails(fault, scope, step) == fault = <<scope, step>>

\* ------------------------------------------------------------ MockProvider
CurrentDb == "current.db"

\* as uploadFile, but an existing file is kept instead of replaced
uploadFile_KeepExisting(fs, fileName, buffer) ==
  [n \in (DOMAIN fs) \cup {fileName} |-> IF n \in DOMAIN fs THEN fs[n] ELSE buffer]

uploadFile(fs, fileName, buffer) ==
  [n \in (DOMAIN fs) \cup {fileName} |-> IF n = fileName THEN buffer ELSE fs[n]]

\* as fileExists, but a missing file is reported as present
fileExists_Always(fs, fileName) == fileName \in DOMAIN fs \/ TRUE

fileExists(fs, fileName) == fileName \in DOMAIN fs

\* the bytes when the file is there; when it is not the provider throws,
\* which pullFromCloud treats as a failed download
downloadFile(fs, fileName) == fs[fileName]

\* as getMetadata, but an empty record is returned instead of null
getMetadata_NeverNull(md) ==
  IF IsNull(md) THEN Some([checksum |-> <<>>, modifiedAt |-> 0, size |-> 0])
  ELSE Some([checksum |-> Get(md).checksum,
             modifiedAt |-> Get(md).lastSyncTimestamp,
             size |-> 0])

getMetadata(md) ==
  IF IsNull(md) THEN Null
  ELSE Some([checksum |-> Get(md).checksum,
             modifiedAt |-> Get(md).lastSyncTimestamp,
             size |-> 0])

\* as updateMetadata, but the record is stored without its checksum
updateMetadata_DropsChecksum(m) == Some([m EXCEPT !.checksum = <<>>])

updateMetadata(m) == Some(m)

deleteFile(fs, fileName) == [n \in (DOMAIN fs) \ {fileName} |-> fs[n]]

\* --------------------------------------------------------- DatabaseManager
\* JSON text of the local record: parses is FALSE for a truncated write.
JsonText(obj) == [parses |-> TRUE, value |-> obj]
DefaultLocalMetadata == [lastSyncTimestamp |-> 0, lastSyncChecksum |-> <<>>]
TornText == [parses |-> FALSE, value |-> DefaultLocalMetadata]

close(s) == [s EXCEPT !.db = FALSE]

\* as getLocalMetadata, but the stored record is never read
getLocalMetadata_AlwaysDefault(mf, io) ==
  [threw |-> FALSE, value |-> DefaultLocalMetadata]

\* getLocalMetadata: [threw, value]; io = "read" makes readFile reject
getLocalMetadata(mf, io) ==
  IF IsNull(mf) THEN [threw |-> FALSE, value |-> DefaultLocalMetadata]
  ELSE IF io = "read" \/ ~Get(mf).parses
       THEN [threw |-> TRUE, value |-> DefaultLocalMetadata]
       ELSE [threw |-> FALSE, value |-> Get(mf).value]

\* { ...metadata, ...current }: the spread the wrong way round
Merge_CurrentWins(current, partial) ==
  [k \in (DOMAIN current) \cup (DOMAIN partial) |->
     IF k \in DOMAIN current THEN current[k] ELSE partial[k]]

\* { ...defaults, ...metadata }: the stored record is replaced wholesale
Merge_OverDefault(current, partial) ==
  [k \in (DOMAIN current) \cup (DOMAIN partial) |->
     IF k \in DOMAIN partial THEN partial[k] ELSE DefaultLocalMetadata[k]]

\* { ...current, ...metadata }
Merge(current, partial) ==
  [k \in (DOMAIN current) \cup (DOMAIN partial) |->
     IF k \in DOMAIN partial THEN partial[k] ELSE current[k]]

\* updateLocalMetadata: [threw, metaFile].  fs.promises.writeFile opens the
\* file truncating it and then writes: io = "open" rejects before the file
\* is touched, io = "write" rejects with the text cut short.
updateLocalMetadata(mf, partial, io) ==
  LET current == getLocalMetadata(mf, io)
  IN IF current.threw THEN [threw |-> TRUE, metaFile |-> mf]
     ELSE IF io = "open" THEN [threw |-> TRUE, metaFile |-> mf]
     ELSE IF io = "write" THEN [threw |-> TRUE, metaFile |-> Some(TornText)]
     ELSE [threw |-> FALSE, metaFile |-> Some(JsonText(Merge(current.value, partial)))]

\* the fault of the local-record update of one scope, as updateLocalMetadata's io
LocalIo(fault, scope) ==
  IF Fails(fault, scope, "readLocalMetadata") THEN "read"
  ELSE IF Fails(fault, scope, "openLocalMetadata") THEN "open"
  ELSE IF Fails(fault, scope, "writeLocalMetadata") THEN "write"
  ELSE "ok"

\* the first cut bytes of buffer: what a write that stops early leaves behind
Prefix(buffer, cut) == SubSeq(buffer, 1, IF cut < Len(buffer) THEN cut ELSE Len(buffer))

\* as replaceWithBuffer, but the temp file is never renamed over dbPath
replaceWithBuffer_NoRename(s, buffer, io, cut, t) ==
  LET closed == close(s)
  IN IF io = "writeTemp"
     THEN [threw |-> TRUE, s |-> [closed EXCEPT !.tmpFile = Some(Prefix(buffer, cut))]]
     ELSE IF io = "rename"
     THEN [threw |-> TRUE, s |-> [closed EXCEPT !.tmpFile = Some(buffer)]]
     ELSE [threw |-> FALSE, s |-> [closed EXCEPT !.tmpFile = Some(buffer)]]

\* replaceWithBuffer: [threw, s].  io = "writeTemp" rejects the temp write
\* after cut bytes, io = "rename" rejects the rename; t is the time of the write.
replaceWithBuffer(s, buffer, io, cut, t) ==
  LET closed == close(s)
  IN IF io = "writeTemp"
     THEN [threw |-> TRUE, s |-> [closed EXCEPT !.tmpFile = Some(Prefix(buffer, cut))]]
     ELSE IF io = "rename"
     THEN [threw |-> TRUE, s |-> [closed EXCEPT !.tmpFile = Some(buffer)]]
     ELSE [threw |-> FALSE,
           s |-> [closed EXCEPT !.tmpFile = Null, !.dbFile = Some(buffer), !.mtime = t]]

\* as getModifiedTime, but the time of the last sync is read from the local
\* record when there is one
getModifiedTime_FromRecord(s) ==
  IF ~IsNull(s.metaFile) /\ Get(s.metaFile).parses
  THEN Get(s.metaFile).value.lastSyncTimestamp
  ELSE s.mtime

getModifiedTime(s) == s.mtime

\* -------------------------------------------------------------- SyncEngine
\* What a call leaves behind: the state, whether it threw and with what
\* message, the SyncResult it returned (Null when it threw), the awaited
\* collaborator calls it started, in order, the lines it logged, and (for
\* sync) the branch it took: "push", "pull", "skip", or "none" before any.
Returned(s, result, calls, log) ==
  [s |-> s, threw |-> FALSE, error |-> "", result |-> Some(result),
   calls |-> calls, log |-> log, branch |-> "none"]

\* as Thrown, but the catch block returns a result with success = false
\* instead of rethrowing
Thrown_ReturnsFailure(s, error, calls, log) ==
  [s |-> s, threw |-> FALSE, error |-> error,
   result |-> Some([success |-> FALSE, type |-> "push", timestamp |-> s.now,
                    localChecksum |-> <<>>, cloudChecksum |-> <<>>,
                    bytesTransferred |-> 0, duration |-> 0]),
   calls |-> calls, log |-> log, branch |-> "none"]

Thrown(s, error, calls, log) ==
  [s |-> s, threw |-> TRUE, error |-> error, result |-> Null,
   calls |-> calls, log |-> log, branch |-> "none"]

SyncResult(type, timestamp, localChecksum, cloudChecksum, bytesTransferred, duration) ==
  [success |-> TRUE, type |-> type, timestamp |-> timestamp,
   localChecksum |-> localChecksum, cloudChecksum |-> cloudChecksum,
   bytesTransferred |-> bytesTransferred, duration |-> duration]

PushCalls == <<"getBuffer", "uploadFile", "updateMetadata", "updateLocalMetadata">>
PullCalls == <<"fileExists", "downloadFile", "getMetadata", "replaceWithBuffer",
               "updateLocalMetadata">>

\* The messages of the errors: 'No cloud version found' and 'Checksum
\* mismatch - data corruption detected' are the engine's own; "IOError" stands
\* for what the file system rejects with and "TransportError" for what the
\* provider rejects with.

\* as pushToCloud, but the remote record is written before the blob is
\* uploaded
pushToCloud_RecordBeforeBlob(s, fault, t) ==
  LET startTime == s.now
      s0 == [close(s) EXCEPT !.now = t]
      order == <<"getBuffer", "updateMetadata", "uploadFile", "updateLocalMetadata">>
      failed(k, st, err) == Thrown(st, err, SubSeq(order, 1, k), <<"Push failed">>)
  IN IF Fails(fault, "push", "getBuffer") \/ IsNull(s.dbFile)
     THEN failed(1, s0, "IOError")
     ELSE
     LET buffer == Get(s.dbFile)
         checksum == calculateBufferChecksum(buffer)
         md == [dbName |-> "current", lastSyncTimestamp |-> t,
                lastSyncType |-> "push", checksum |-> checksum,
                version |-> SchemaVersion]
     IN IF Fails(fault, "push", "updateMetadata")
        THEN failed(2, s0, "TransportError")
        ELSE
        LET s1 == [s0 EXCEPT !.metadata = updateMetadata(md)]
        IN IF Fails(fault, "push", "uploadFile")
           THEN failed(3, s1, "TransportError")
           ELSE
           LET s2 == [s1 EXCEPT !.files = uploadFile(@, CurrentDb, buffer)]
               upd == updateLocalMetadata(s2.metaFile,
                        [lastSyncTimestamp |-> md.lastSyncTimestamp,
                         lastSyncChecksum |-> checksum],
                        LocalIo(fault, "push"))
               s3 == [s2 EXCEPT !.metaFile = upd.metaFile]
           IN IF upd.threw
              THEN failed(4, s3, "IOError")
              ELSE Returned(s3,
                     SyncResult("push", t, checksum, checksum, Len(buffer), t - startTime),
                     order, <<"Push successful">>)

\* as pushToCloud, but the local record is updated before the upload
pushToCloud_LocalRecordFirst(s, fault, t) ==
  LET startTime == s.now
      s0 == [close(s) EXCEPT !.now = t]
      failed(k, st, err) == Thrown(st, err, SubSeq(PushCalls, 1, k), <<"Push failed">>)
  IN IF Fails(fault, "push", "getBuffer") \/ IsNull(s.dbFile)
     THEN failed(1, s0, "IOError")
     ELSE
     LET buffer == Get(s.dbFile)
         checksum == calculateBufferChecksum(buffer)
         upd == updateLocalMetadata(s0.metaFile,
                  [lastSyncTimestamp |-> t, lastSyncChecksum |-> checksum],
                  LocalIo(fault, "push"))
         s1 == [s0 EXCEPT !.metaFile = upd.metaFile]
     IN IF upd.threw
        THEN failed(4, s1, "IOError")
        ELSE IF Fails(fault, "push", "uploadFile")
        THEN failed(2, s1, "TransportError")
        ELSE
        LET s2 == [s1 EXCEPT !.files = uploadFile(@, CurrentDb, buffer)]
            md == [dbName |-> "current", lastSyncTimestamp |-> t,
                   lastSyncType |-> "push", checksum |-> checksum,
                   version |-> SchemaVersion]
        IN IF Fails(fault, "push", "updateMetadata")
           THEN failed(3, s2, "TransportError")
           ELSE Returned([s2 EXCEPT !.metadata = updateMetadata(md)],
                  SyncResult("push", t, checksum, checksum, Len(buffer), t - startTime),
                  PushCalls, <<"Push successful">>)

\* pushToCloud.  startTime is s.now; every later Date.now() reads t.
pushToCloud(s, fault, t) ==
  LET startTime == s.now
      s0 == [close(s) EXCEPT !.now = t]
      failed(k, st, err) == Thrown(st, err, SubSeq(PushCalls, 1, k), <<"Push failed">>)
  IN IF Fails(fault, "push", "getBuffer") \/ IsNull(s.dbFile)
     THEN failed(1, s0, "IOError")
     ELSE
     LET buffer == Get(s.dbFile)
         originalSize == Len(buffer)
         checksum == calculateBufferChecksum(buffer)
     IN IF Fails(fault, "push", "uploadFile")
        THEN failed(2, s0, "TransportError")
        ELSE
        LET s1 == [s0 EXCEPT !.files = uploadFile(@, CurrentDb, buffer)]
            md == [dbName |-> "current", lastSyncTimestamp |-> t,
                   lastSyncType |-> "push", checksum |-> checksum,
                   version |-> SchemaVersion]
        IN IF Fails(fault, "push", "updateMetadata")
           THEN failed(3, s1, "TransportError")
           ELSE
           LET s2 == [s1 EXCEPT !.metadata = updateMetadata(md)]
               upd == updateLocalMetadata(s2.metaFile,
                        [lastSyncTimestamp |-> md.lastSyncTimestamp,
                         lastSyncChecksum |-> checksum],
                        LocalIo(fault, "push"))
               s3 == [s2 EXCEPT !.metaFile = upd.metaFile]
           IN IF upd.threw
              THEN failed(4, s3, "IOError")
              ELSE Returned(s3,
                     SyncResult("push", t, checksum, checksum, Len(buffer), t - startTime),
                     PushCalls, <<"Push successful">>)

\* as ChecksumMismatch, but the record is never compared
ChecksumMismatch_Never(cloudMetadata, checksum) ==
  ~IsNull(cloudMetadata) /\ Get(cloudMetadata).checksum # Get(cloudMetadata).checksum

\* as ChecksumMismatch, but a missing record counts as a mismatch
ChecksumMismatch_NoRecordFails(cloudMetadata, checksum) ==
  IsNull(cloudMetadata) \/ Get(cloudMetadata).checksum # checksum

\* the test of sync-engine.ts line 94
ChecksumMismatch(cloudMetadata, checksum) ==
  ~IsNull(cloudMetadata) /\ Get(cloudMetadata).checksum # checksum

\* pullFromCloud.  cut is where a failing temp write stops.
\* as pullFromCloud, but a pull that succeeds writes a remote record of its own
pullFromCloud_StampsRemoteRecord(s, fault, cut, t) ==
  LET startTime == s.now
      s0 == [s EXCEPT !.now = t]
      failed(k, st, err) == Thrown(st, err, SubSeq(PullCalls, 1, k), <<"Pull failed">>)
  IN IF Fails(fault, "pull", "fileExists")
     THEN failed(1, s0, "TransportError")
     ELSE IF ~fileExists(s.files, CurrentDb)
     THEN failed(1, s0, "No cloud version found")
     ELSE IF Fails(fault, "pull", "downloadFile") \/ CurrentDb \notin DOMAIN s.files
     THEN failed(2, s0, "TransportError")
     ELSE
     LET buffer == downloadFile(s.files, CurrentDb)
         checksum == calculateBufferChecksum(buffer)
     IN IF Fails(fault, "pull", "getMetadata")
        THEN failed(3, s0, "TransportError")
        ELSE
        LET cloudMetadata == getMetadata(s.metadata)
        IN IF ChecksumMismatch(cloudMetadata, checksum)
           THEN failed(3, s0, "Checksum mismatch - data corruption detected")
           ELSE
           LET rep == replaceWithBuffer(s0, buffer,
                        IF Fails(fault, "pull", "writeTemp") THEN "writeTemp"
                        ELSE IF Fails(fault, "pull", "rename") THEN "rename"
                        ELSE "ok", cut, t)
           IN IF rep.threw
              THEN failed(4, rep.s, "IOError")
              ELSE
              LET upd == updateLocalMetadata(rep.s.metaFile,
                           [lastSyncTimestamp |-> t, lastSyncChecksum |-> checksum],
                           LocalIo(fault, "pull"))
                  s2 == [rep.s EXCEPT !.metaFile = upd.metaFile]
              IN IF upd.threw
                 THEN failed(5, s2, "IOError")
                 ELSE Returned([s2 EXCEPT !.metadata =
                                 updateMetadata([dbName |-> "current",
                                                 lastSyncTimestamp |-> t,
                                                 lastSyncType |-> "pull",
                                                 checksum |-> checksum,
                                                 version |-> SchemaVersion])],
                        SyncResult("pull", t, checksum, checksum, Len(buffer), t - startTime),
                        PullCalls, <<"Pull successful">>)

pullFromCloud(s, fault, cut, t) ==
  LET startTime == s.now
      s0 == [s EXCEPT !.now = t]
      failed(k, st, err) == Thrown(st, err, SubSeq(PullCalls, 1, k), <<"Pull failed">>)
  IN IF Fails(fault, "pull", "fileExists")
     THEN failed(1, s0, "TransportError")
     ELSE IF ~fileExists(s.files, CurrentDb)
     THEN failed(1, s0, "No cloud version found")
     ELSE IF Fails(fault, "pull", "downloadFile") \/ CurrentDb \notin DOMAIN s.files
     THEN failed(2, s0, "TransportError")
     ELSE
     LET buffer == downloadFile(s.files, CurrentDb)
         checksum == calculateBufferChecksum(buffer)
     IN IF Fails(fault, "pull", "getMetadata")
        THEN failed(3, s0, "TransportError")
        ELSE
        LET cloudMetadata == getMetadata(s.metadata)
        IN IF ChecksumMismatch(cloudMetadata, checksum)
           THEN failed(3, s0, "Checksum mismatch - data corruption detected")
           ELSE
           LET rep == replaceWithBuffer(s0, buffer,
                        IF Fails(fault, "pull", "writeTemp") THEN "writeTemp"
                        ELSE IF Fails(fault, "pull", "rename") THEN "rename"
                        ELSE "ok", cut, t)
           IN IF rep.threw
              THEN failed(4, rep.s, "IOError")
              ELSE
              LET upd == updateLocalMetadata(rep.s.metaFile,
                           [lastSyncTimestamp |-> t, lastSyncChecksum |-> checksum],
                           LocalIo(fault, "pull"))
                  s2 == [rep.s EXCEPT !.metaFile = upd.metaFile]
              IN IF upd.threw
                 THEN failed(5, s2, "IOError")
                 ELSE Returned(s2,
                        SyncResult("pull", t, checksum, checksum, Len(buffer), t - startTime),
                        PullCalls, <<"Pull successful">>)

\* a push or pull made from inside sync: sync's own calls and log line come
\* first, and sync's catch logs once more when the inner call threw
\* as Via, but when the inner call throws sync makes it once more
Via_RetriesOnce(branch, o, calls, line) ==
  [o EXCEPT !.calls = calls \o @ \o (IF o.threw THEN o.calls ELSE <<>>),
            !.log = <<line>> \o @ \o (IF o.threw THEN <<"Sync failed">> ELSE <<>>),
            !.branch = branch]

Via(branch, o, calls, line) ==
  [o EXCEPT !.calls = calls \o @,
            !.log = <<line>> \o @ \o (IF o.threw THEN <<"Sync failed">> ELSE <<>>),
            !.branch = branch]

SyncCalls == <<"fileExists", "getChecksum", "getMetadata", "getModifiedTime">>

\* the comparison of sync-engine.ts line 150
InSync_Never(localChecksum, cloudChecksum) == localChecksum = cloudChecksum /\ FALSE
InSync(localChecksum, cloudChecksum) == localChecksum = cloudChecksum

\* the comparison of sync-engine.ts line 170
LocalIsNewer_OrEqual(localModified, modifiedAt) == localModified >= modifiedAt
LocalIsNewer(localModified, modifiedAt) == localModified > modifiedAt

\* as sync, but the no-op branch stamps the local record
sync_NoOpStampsLocalRecord(s, fault, cut, t) ==
  LET startTime == s.now
      s0 == [s EXCEPT !.now = t]
      failed(k, st, err) == Thrown(st, err, SubSeq(SyncCalls, 1, k), <<"Sync failed">>)
  IN IF Fails(fault, "sync", "fileExists")
     THEN failed(1, s0, "TransportError")
     ELSE
     LET cloudExists == fileExists(s.files, CurrentDb)
     IN IF ~cloudExists
        THEN Via("push", pushToCloud(s, fault, t), SubSeq(SyncCalls, 1, 1),
                 "No cloud version found, pushing local database")
        ELSE IF Fails(fault, "sync", "getChecksum") \/ IsNull(s.dbFile)
        THEN failed(2, close(s0), "IOError")
        ELSE
        LET localChecksum == calculateFileChecksum(Get(s.dbFile))
            sc == close(s)
        IN IF Fails(fault, "sync", "getMetadata")
           THEN failed(3, close(s0), "TransportError")
           ELSE
           LET cloudMetadata == getMetadata(s.metadata)
           IN IF IsNull(cloudMetadata)
              THEN Via("push", pushToCloud(sc, fault, t), SubSeq(SyncCalls, 1, 3),
                       "No cloud metadata, pushing local database")
              ELSE IF InSync(localChecksum, Get(cloudMetadata).checksum)
              THEN [Returned([close(s0) EXCEPT !.metaFile =
                               Some(JsonText([lastSyncTimestamp |-> t,
                                              lastSyncChecksum |-> localChecksum]))],
                      SyncResult("bidirectional", t, localChecksum,
                                 Get(cloudMetadata).checksum, 0, t - startTime),
                      SubSeq(SyncCalls, 1, 3), <<"Already in sync">>)
                    EXCEPT !.branch = "skip"]
              ELSE IF Fails(fault, "sync", "getModifiedTime")
              THEN failed(4, close(s0), "IOError")
              ELSE
              LET localModified == getModifiedTime(s)
              IN IF LocalIsNewer(localModified, Get(cloudMetadata).modifiedAt)
                 THEN Via("push", pushToCloud(sc, fault, t), SyncCalls,
                          "Local is newer, pushing")
                 ELSE Via("pull", pullFromCloud(sc, fault, cut, t), SyncCalls,
                          "Cloud is newer, pulling")

sync(s, fault, cut, t) ==
  LET startTime == s.now
      s0 == [s EXCEPT !.now = t]
      failed(k, st, err) == Thrown(st, err, SubSeq(SyncCalls, 1, k), <<"Sync failed">>)
  IN IF Fails(fault, "sync", "fileExists")
     THEN failed(1, s0, "TransportError")
     ELSE
     LET cloudExists == fileExists(s.files, CurrentDb)
     IN IF ~cloudExists
        THEN Via("push", pushToCloud(s, fault, t), SubSeq(SyncCalls, 1, 1),
                 "No cloud version found, pushing local database")
        ELSE IF Fails(fault, "sync", "getChecksum") \/ IsNull(s.dbFile)
        THEN failed(2, close(s0), "IOError")
        ELSE
        LET localChecksum == calculateFileChecksum(Get(s.dbFile))
            sc == close(s)
        IN IF Fails(fault, "sync", "getMetadata")
           THEN failed(3, close(s0), "TransportError")
           ELSE
           LET cloudMetadata == getMetadata(s.metadata)
           IN IF IsNull(cloudMetadata)
              THEN Via("push", pushToCloud(sc, fault, t), SubSeq(SyncCalls, 1, 3),
                       "No cloud metadata, pushing local database")
              ELSE IF InSync(localChecksum, Get(cloudMetadata).checksum)
              THEN [Returned(close(s0),
                      SyncResult("bidirectional", t, localChecksum,
                                 Get(cloudMetadata).checksum, 0, t - startTime),
                      SubSeq(SyncCalls, 1, 3), <<"Already in sync">>)
                    EXCEPT !.branch = "skip"]
              ELSE IF Fails(fault, "sync", "getModifiedTime")
              THEN failed(4, close(s0), "IOError")
              ELSE
              LET localModified == getModifiedTime(s)
              IN IF LocalIsNewer(localModified, Get(cloudMetadata).modifiedAt)
                 THEN Via("push", pushToCloud(sc, fault, t), SyncCalls,
                          "Local is newer, pushing")
                 ELSE Via("pull", pullFromCloud(sc, fault, cut, t), SyncCalls,
                          "Cloud is newer, pulling")

\* ----------------------------------------------------- GoogleDriveProvider
\* The Drive account is the sequence of its entries, oldest first, and the
\* id of an entry is its place in it.  An entry has a name, a parent (the
\* id of a folder, or MyDrive), is a folder or a file, and a file has
\* content.  Names are not unique in Drive.  Every request to Drive succeeds
\* here: a provider call that rejects is a failing step of the engine.
MaxEntries == 5     \* most files and folders in the account

MyDrive == 0
RootFolderName == ".sqlite-cloud-backup"
DbName == "db"
MetadataJson == "metadata.json"

\* content of a remote file: the bytes of a database, or the text of
\* Buffer.from(JSON.stringify(metadata, null, 2))
NoContent == [bytes |-> <<>>, json |-> Null]
Blob(buffer) == [bytes |-> buffer, json |-> Null]
JsonBuffer(m) == [bytes |-> <<>>, json |-> Some(JsonText(m))]

\* files.list returns the matches in an order Drive chooses; files[0] is
\* the oldest or the newest of them
Pick(ids, pick) ==
  IF pick = "oldest" THEN CHOOSE i \in ids : \A j \in ids : i <= j
  ELSE CHOOSE i \in ids : \A j \in ids : i >= j

\* A provider call in progress: the account, the provider's fields
\* (dbName is the name of the database file without its extension), whether
\* the call has thrown, and the names of the folders its file lookups
\* searched and of the folders it created files in.  full: the account
\* cannot take another entry.
Provider(pick) ==
  [drive |-> drive, rootFolderId |-> rootFolderId, dbName |-> DbName, pick |-> pick,
   threw |-> FALSE, error |-> "", full |-> FALSE, searched |-> {}, placed |-> {}]

\* drive.files.create
Create(g, entry) ==
  IF Len(g.drive) >= MaxEntries
  THEN [g EXCEPT !.threw = TRUE, !.full = TRUE]
  ELSE [g EXCEPT !.drive = Append(@, entry),
                 !.placed = IF entry.folder THEN @
                            ELSE @ \cup {g.drive[entry.parent].name}]

\* drive.files.delete: the entry leaves the account
Delete(g, id) ==
  LET below(i) == IF i > id THEN i - 1 ELSE i
  IN [g EXCEPT
        !.drive = [i \in 1..(Len(@) - 1) |->
                     LET e == @[IF i < id THEN i ELSE i + 1]
                     IN [e EXCEPT !.parent = below(@)]],
        !.rootFolderId = IF IsNull(@) THEN @ ELSE Some(below(Get(@)))]

\* ensureDbFolder: [g, id]
ensureDbFolder(g) ==
  LET root == Get(g.rootFolderId)
      found == {i \in DOMAIN g.drive :
                  g.drive[i].folder /\ g.drive[i].name = g.dbName /\ g.drive[i].parent = root}
  IN IF found # {} THEN [g |-> g, id |-> Pick(found, g.pick)]
     ELSE [g |-> Create(g, [name |-> g.dbName, parent |-> root, folder |-> TRUE,
                             content |-> NoContent]),
           id |-> (Len(g.drive) + 1)]

\* ensureRootFolder: [g, id].  With rootFolderId set it returns that id;
\* otherwise it finds or creates the root folder, sets rootFolderId and
\* returns what ensureDbFolder returns.
ensureRootFolder(g) ==
  IF ~IsNull(g.rootFolderId) THEN [g |-> g, id |-> Get(g.rootFolderId)]
  ELSE
  LET found == {i \in DOMAIN g.drive :
                  g.drive[i].folder /\ g.drive[i].name = RootFolderName}
  IN IF found # {}
     THEN ensureDbFolder([g EXCEPT !.rootFolderId = Some(Pick(found, g.pick))])
     ELSE LET g1 == Create(g, [name |-> RootFolderName, parent |-> MyDrive,
                               folder |-> TRUE, content |-> NoContent])
          IN IF g1.threw THEN [g |-> g1, id |-> MyDrive]
             ELSE ensureDbFolder([g1 EXCEPT !.rootFolderId = Some((Len(g.drive) + 1))])

\* findFile: [g, file], file the id of a match or Null
findFile(g, fileName) ==
  LET e == ensureRootFolder(g)
      found == {i \in DOMAIN e.g.drive :
                  e.g.drive[i].name = fileName /\ e.g.drive[i].parent = e.id}
  IN IF e.g.threw THEN [g |-> e.g, file |-> Null]
     ELSE [g |-> [e.g EXCEPT !.searched = @ \cup {e.g.drive[e.id].name}],
           file |-> IF found = {} THEN Null ELSE Some(Pick(found, g.pick))]

\* What a provider call leaves behind.  result has one field per return
\* type: exists (fileExists), content (downloadFile), metadata (getMetadata).
NoResult == [exists |-> FALSE, content |-> Null, metadata |-> Null]
Left(g, result) ==
  [drive |-> g.drive, rootFolderId |-> g.rootFolderId, threw |-> g.threw,
   error |-> g.error, full |-> g.full, searched |-> g.searched, placed |-> g.placed,
   result |-> IF g.threw THEN NoResult ELSE result]

Drive_uploadFile(g, fileName, content) ==
  LET e == ensureRootFolder(g)
      f == findFile(e.g, fileName)
  IN IF f.g.threw THEN Left(f.g, NoResult)
     ELSE IF ~IsNull(f.file)
     THEN Left([f.g EXCEPT !.drive[Get(f.file)].content = content], NoResult)
     ELSE Left(Create(f.g, [name |-> fileName, parent |-> e.id, folder |-> FALSE,
                            content |-> content]), NoResult)

\* downloadFile up to its return value: [g, content]
Download(g, fileName) ==
  LET f == findFile(g, fileName)
  IN IF f.g.threw THEN [g |-> f.g, content |-> NoContent]
     ELSE IF IsNull(f.file)
     THEN [g |-> [f.g EXCEPT !.threw = TRUE, !.error = "File not found"],
           content |-> NoContent]
     ELSE [g |-> f.g, content |-> f.g.drive[Get(f.file)].content]

Drive_downloadFile(g, fileName) ==
  LET d == Download(g, fileName)
  IN Left(d.g, [NoResult EXCEPT !.content = Some(d.content)])

Drive_fileExists(g, fileName) ==
  LET f == findFile(g, fileName)
  IN Left(f.g, [NoResult EXCEPT !.exists = ~IsNull(f.file)])

Drive_getMetadata(g) ==
  LET f == findFile(g, MetadataJson)
  IN IF f.g.threw \/ IsNull(f.file) THEN Left(f.g, NoResult)
     ELSE LET d == Download(f.g, MetadataJson)
          IN IF d.g.threw THEN Left(d.g, NoResult)
             ELSE IF IsNull(d.content.json) \/ ~Get(d.content.json).parses
             THEN Left([d.g EXCEPT !.threw = TRUE, !.error = "SyntaxError"], NoResult)
             ELSE LET m == Get(d.content.json).value
                  IN Left(d.g, [NoResult EXCEPT !.metadata =
                                  Some([checksum |-> m.checksum,
                                        modifiedAt |-> m.lastSyncTimestamp,
                                        size |-> 0])])

Drive_updateMetadata(g, m) == Drive_uploadFile(g, MetadataJson, JsonBuffer(m))

Drive_deleteFile(g, fileName) ==
  LET f == findFile(g, fileName)
  IN IF f.g.threw \/ IsNull(f.file) THEN Left(f.g, NoResult)
     ELSE Left(Delete(f.g, Get(f.file)), NoResult)

\* ---------------------------------------------------------- TokenStorage
\* StoredTokens: refreshToken, and accessToken and expiryDate when given
\* (Null for undefined).  The text of tokens.json is the set of the
\* key/value pairs JSON.stringify writes: a field that is undefined is left out.
TokenFields == {"refreshToken", "accessToken", "expiryDate"}
RefreshTokens == {1, 2}

StoredTokens ==
  [refreshToken : {Some(r) : r \in RefreshTokens}, accessToken : {Null, Some(1)},
   expiryDate : {Null, Some(1)}]

\* as Stringify, but the access token is not written
Stringify_NoAccessToken(tokens) ==
  {<<k, Get(tokens[k])>> : k \in {f \in TokenFields \ {"accessToken"} : ~IsNull(tokens[f])}}

\* JSON.stringify(tokens, null, 2)
Stringify(tokens) ==
  {<<k, Get(tokens[k])>> : k \in {f \in TokenFields : ~IsNull(tokens[f])}}

\* JSON.parse(data) as StoredTokens: a field not in the text reads undefined
Parse(text) ==
  [k \in TokenFields |->
     IF \E p \in text : p[1] = k THEN Some((CHOOSE p \in text : p[1] = k)[2]) ELSE Null]

\* fs.access(tokenFile) succeeds
\* a tokens.json that is there (fs.access resolves) and that readFile
\* cannot read or JSON.parse cannot parse
NotJson == {<<"", 0>>}

hasTokens(tf) == ~IsNull(tf)

\* getTokens: the tokens, or Null when the file cannot be read
getTokens(tf) == IF IsNull(tf) \/ tf = Some(NotJson) THEN Null ELSE Some(Parse(Get(tf)))

\* saveTokens: [threw, tokenFile]; io = "mkdir" makes fs.mkdir reject, and
\* the catch block throws 'Failed to save authentication tokens'
saveTokens(tf, tokens, io) ==
  IF io = "mkdir" THEN [threw |-> TRUE, tokenFile |-> tf]
  ELSE [threw |-> FALSE, tokenFile |-> Some(Stringify(tokens))]

\* clearTokens: fs.unlink, ENOENT ignored; it never throws
clearTokens(tf) == Null

\* ------------------------------------------------------ SqliteCloudBackup
\* The part of a SqliteCloudBackup the authentication reads and writes:
\* tokens.json, credentials.refreshToken and the refresh token the current
\* provider was constructed with (Null for undefined).

\* What OAuthFlow.authenticate comes back with: it rejects (the user
\* refuses, the five minutes pass, port 3000 is taken), or resolves to tokens.
OAuthOutcomes ==
  {[ok |-> FALSE, refresh_token |-> 1, access_token |-> 1, expiry_date |-> Null]} \cup
  {[ok |-> TRUE, refresh_token |-> r, access_token |-> 1, expiry_date |-> e] :
     r \in RefreshTokens, e \in {Null, Some(1)}}

needsAuthentication(a) ==
  IF ~IsNull(a.credentials) THEN FALSE ELSE ~hasTokens(a.tokenFile)

isAuthenticated(a) == ~needsAuthentication(a)

\* as authenticate, but credentials.refreshToken is set before the tokens
\* are saved
authenticate_CredentialsBeforeSave(a, oauth, io) ==
  IF ~oauth.ok THEN [a |-> a, threw |-> TRUE, flow |-> TRUE, via |-> "flow"]
  ELSE LET written == saveTokens(a.tokenFile,
                      [refreshToken |-> Some(oauth.refresh_token),
                       accessToken |-> Some(oauth.access_token),
                       expiryDate |-> oauth.expiry_date], io)
       IN [a |-> [tokenFile |-> written.tokenFile,
                  credentials |-> Some(oauth.refresh_token),
                  providerToken |-> Some(oauth.refresh_token)],
           threw |-> written.threw, flow |-> TRUE, via |-> "flow"]

\* authenticate: [a, threw, flow, via]; flow: the interactive OAuth flow was
\* started; via: where the refresh token in use came from
authenticate(a, oauth, io) ==
  IF ~oauth.ok THEN [a |-> a, threw |-> TRUE, flow |-> TRUE, via |-> "flow"]
  ELSE LET written == saveTokens(a.tokenFile,
                      [refreshToken |-> Some(oauth.refresh_token),
                       accessToken |-> Some(oauth.access_token),
                       expiryDate |-> oauth.expiry_date], io)
       IN IF written.threw
          THEN [a |-> [a EXCEPT !.tokenFile = written.tokenFile], threw |-> TRUE,
                flow |-> TRUE, via |-> "flow"]
          ELSE [a |-> [tokenFile |-> written.tokenFile,
                       credentials |-> Some(oauth.refresh_token),
                       providerToken |-> Some(oauth.refresh_token)],
                threw |-> FALSE, flow |-> TRUE, via |-> "flow"]

\* as ensureAuthenticated, but stored tokens are not looked for
ensureAuthenticated_IgnoresStorage(a, oauth, io) ==
  IF ~IsNull(a.credentials)
  THEN [a |-> a, threw |-> FALSE, flow |-> FALSE, via |-> "provided"]
  ELSE authenticate(a, oauth, io)

ensureAuthenticated(a, oauth, io) ==
  IF ~IsNull(a.credentials)
  THEN [a |-> a, threw |-> FALSE, flow |-> FALSE, via |-> "provided"]
  ELSE LET storedTokens == getTokens(a.tokenFile)
       IN IF ~IsNull(storedTokens)
          THEN [a |-> [a EXCEPT !.credentials = Get(storedTokens).refreshToken,
                                !.providerToken = Get(storedTokens).refreshToken],
                threw |-> FALSE, flow |-> FALSE, via |-> "stored"]
          ELSE authenticate(a, oauth, io)

\* as logout, but the refresh token stays in the credentials
logout_KeepsCredentials(a) == [a EXCEPT !.tokenFile = clearTokens(@)]

logout(a) == [a EXCEPT !.tokenFile = clearTokens(@), !.credentials = Null]

\* ---------------------------------------------------------------- OAuthFlow
\* An OAuthFlow f.  f.server is this.server: the number of the http.Server
\* of the wait started last, 0 for null.  f.listening: the servers bound to
\* port 3000.  f.waits[k] is the k-th call of startLocalServerAndWaitForCode:
\* its promise ("waiting", "resolved" with code, "rejected" with error) and
\* whether its setTimeout is still to fire.  f.answered: the HTTP response
\* given last and the server that gave it.
MaxFlows == 2     \* most calls of authenticate() on one OAuthFlow

stopServer(f) ==
  IF f.server = 0 THEN f
  ELSE [f EXCEPT !.listening = @ \ {f.server}, !.server = 0]

\* as Settle, but a promise that has settled is settled again
Settle_Again(f, k, state, code, error) ==
  [f EXCEPT !.waits[k].state = state, !.waits[k].code = code, !.waits[k].error = error]

\* resolve(code) or reject(new Error(error)) of the k-th promise: a promise
\* that has settled stays as it is
Settle(f, k, state, code, error) ==
  IF f.waits[k].state # "waiting" THEN f
  ELSE [f EXCEPT !.waits[k].state = state, !.waits[k].code = code,
                 !.waits[k].error = error]

\* No call of the facade or of TokenStorage yet.  after: the call made
\* before this one, and earlier: the one before that; before:
\* credentials.refreshToken when the call began, and had: when the call
\* before it began;
\* flow: the call started the OAuth flow; via: where the refresh token it
\* went on with came from; used: the refresh token of the provider the
\* engine call went to (Null when the engine was not called); answer: what
\* a boolean call returned; tokens: what getTokens returned.
NotDone ==
  [op |-> "none", after |-> "none", earlier |-> "none", before |-> Null, had |-> Null,
   threw |-> FALSE, flow |-> FALSE, via |-> "none", used |-> Null, answer |-> FALSE,
   tokens |-> Null]

\* no provider call made yet
NoCall ==
  [n |-> 0, op |-> "none", fileName |-> "", given |-> NoContent, new |-> TRUE,
   threw |-> FALSE, result |-> NoResult, searched |-> {}, placed |-> {}]

\* a new account and a provider just constructed
OutsideInit ==
  /\ drive = <<>>
  /\ rootFolderId = Null
  /\ seen = NoCall
  /\ tokenFile = Null
  /\ credentials = Null
  /\ providerToken = Null
  /\ did = NotDone
  /\ saved = Null
  /\ authenticated = FALSE
  /\ oauthFlow = [server |-> 0, listening |-> {}, waits |-> <<>>,
                  answered |-> [status |-> 0, by |-> 0, kind |-> "none", code |-> 0]]

\* ------------------------------------------------------------------ faults
PushFaults ==
  {<<"push", st>> : st \in {"getBuffer", "uploadFile", "updateMetadata",
                            "readLocalMetadata", "openLocalMetadata", "writeLocalMetadata"}}
PullFaults ==
  {<<"pull", st>> : st \in {"fileExists", "downloadFile", "getMetadata", "writeTemp",
                            "rename", "readLocalMetadata", "openLocalMetadata",
                            "writeLocalMetadata"}}
SyncFaults ==
  {<<"sync", st>> : st \in {"fileExists", "getChecksum", "getMetadata", "getModifiedTime"}}

\* ----------------------------------------------------------------- actions
\* No outcome in hand.  last.after tells what the caller had in hand when
\* it made the call: nothing ("idle"), a sync() that returned, or a push
\* that failed writing the remote record.
Idle ==
  [op |-> "idle", after |-> "idle", threw |-> FALSE, error |-> "", result |-> Null,
   calls |-> <<>>, log |-> <<>>, branch |-> "none"]

SyncReturned(l) == l.op = "sync" /\ ~l.threw

\* a push (made directly or by sync) that uploaded the blob and then failed
\* writing the remote record
HalfPushed(l) ==
  /\ l.op \in {"pushToCloud", "sync"} /\ l.threw
  /\ l.calls[Len(l.calls)] = "updateMetadata"

Kind(l) ==
  IF l.op = "idle" THEN "idle"
  ELSE IF SyncReturned(l) THEN "syncReturned"
  ELSE IF HalfPushed(l) THEN "halfPushed"
  ELSE "other"

\* No call of the local store on its own.  A call is at one of its awaited
\* steps, or has "returned" or "threw"; buffer is the bytes it was given,
\* before the destination file when it began, ret the bytes (or digest) it
\* returned, partial the fields it was given and current the record it read,
\* expected the digest verifyChecksum was given and ok what it returned.
NoRun ==
  [op |-> "none", at |-> "returned", buffer |-> <<>>, before |-> Null, ret |-> <<>>,
   partial |-> [lastSyncTimestamp |-> Null, lastSyncChecksum |-> Null], current |-> DefaultLocalMetadata, beforeMeta |-> Null,
   expected |-> <<>>, ok |-> FALSE]

Apply(op, o) ==
  /\ files' = o.s.files
  /\ metadata' = o.s.metadata
  /\ dbFile' = o.s.dbFile
  /\ mtime' = o.s.mtime
  /\ tmpFile' = o.s.tmpFile
  /\ metaFile' = o.s.metaFile
  /\ db' = o.s.db
  /\ now' = o.s.now
  /\ UNCHANGED store
  /\ last' = [op |-> op, after |-> Kind(last), threw |-> o.threw, error |-> o.error, result |-> o.result,
              calls |-> o.calls, log |-> o.log, branch |-> o.branch]

Init ==
  /\ files = [n \in {} |-> <<>>]
  /\ metadata = Null
  /\ dbFile \in {Some(b) : b \in Buffers}
  /\ mtime = 0
  /\ tmpFile = Null
  /\ metaFile = Null
  /\ db = FALSE
  /\ now = 0
  /\ last = Idle
  /\ handles = 0
  /\ run = NoRun
  /\ persisted = Null
  /\ OutsideInit

\* Each call is one step, so every Date.now() of the call reads the same tick;
\* time passes between calls (Tick).
CutPoints == {Len(b) : b \in Buffers}

PushToCloud ==
  /\ last.op = "idle"
  /\ \E fault \in PushFaults \cup {NoFault} :
       Apply("pushToCloud", pushToCloud(State, fault, now))

PullFromCloud ==
  /\ last.op = "idle"
  /\ \E fault \in PullFaults \cup {NoFault}, cut \in CutPoints :
       /\ cut = 0 \/ Fails(fault, "pull", "writeTemp")
       /\ Apply("pullFromCloud", pullFromCloud(State, fault, cut, now))

\* sync() is also called with the outcome of a sync() that returned, or of
\* a push that failed writing the remote record, still in hand
Sync ==
  /\ \/ last.op = "idle"
     \/ last.after = "idle" /\ Kind(last) \in {"syncReturned", "halfPushed"}
  /\ \E fault \in SyncFaults \cup PushFaults \cup PullFaults \cup {NoFault},
        cut \in CutPoints :
       /\ cut = 0 \/ Fails(fault, "pull", "writeTemp")
       /\ Apply("sync", sync(State, fault, cut, now))

\* the caller is done with the outcome
Forget ==
  /\ last.op # "idle"
  /\ last' = Idle
  /\ UNCHANGED <<files, metadata, dbFile, mtime, tmpFile, metaFile, db, now, store>>

\* the application (or anything else on the machine) rewrites the database file
WriteLocal ==
  /\ last.op = "idle"
  /\ \E b \in Buffers :
       /\ dbFile' = Some(b)
       /\ mtime' = now
  /\ UNCHANGED <<files, metadata, tmpFile, metaFile, db, now, last, store>>

\* utimes: the modification time is set without touching the bytes
TouchLocal ==
  /\ last.op = "idle"
  /\ ~IsNull(dbFile)
  /\ \E m \in Times : mtime' = m
  /\ UNCHANGED <<files, metadata, dbFile, tmpFile, metaFile, db, now, last, store>>

DeleteLocal ==
  /\ last.op = "idle"
  /\ ~IsNull(dbFile)
  /\ dbFile' = Null
  /\ mtime' = 0
  /\ UNCHANGED <<files, metadata, tmpFile, metaFile, db, now, last, store>>

Tick ==
  /\ now < MaxTime
  /\ now' = now + 1
  /\ UNCHANGED <<files, metadata, dbFile, mtime, tmpFile, metaFile, db, last, store>>

Next ==
  \/ PushToCloud
  \/ PullFromCloud
  \/ Sync
  \/ Forget
  \/ WriteLocal
  \/ TouchLocal
  \/ DeleteLocal
  \/ Tick

Spec == Init /\ [][Next]_vars

\* ============================================== the local store on its own
\* DatabaseManager and FileOperations called directly, one awaited step at a
\* time, by a caller that awaits each call before making the next.  A call
\* can fail (or the process be stopped) at any step it has reached.
MaxHandles == 2   \* most Database handles open at a time

InFlight == run.at \notin {"returned", "threw"}

Begin(op, at) == [NoRun EXCEPT !.op = op, !.at = at]

\* the two files replaceWithBuffer and copyFile write, as one record
Paths == [dbFile |-> dbFile, tmpFile |-> tmpFile]

\* as WriteTemp, but the bytes go to the destination path itself
WriteTemp_InPlace(fsr, bytes) == [fsr EXCEPT !.dbFile = Some(bytes)]

\* writeFile(tempPath, ...) / copyFile(source, tempDest): the temp file holds
\* the bytes written so far
WriteTemp(fsr, bytes) == [fsr EXCEPT !.tmpFile = Some(bytes)]

\* rename(tempPath, dbPath): one atomic replacement of the directory entry
Rename(fsr) == [dbFile |-> fsr.tmpFile, tmpFile |-> Null]

\* open(): a new handle is stored in this.db whether or not one is there
Open ==
  /\ ~InFlight
  /\ IF IsNull(dbFile)
     THEN /\ run' = Begin("open", "threw")
          /\ UNCHANGED <<db, handles>>
     ELSE /\ handles < MaxHandles
          /\ handles' = handles + 1
          /\ db' = TRUE
          /\ run' = Begin("open", "returned")
  /\ UNCHANGED <<outside, files, metadata, dbFile, mtime, tmpFile, metaFile, now, last, persisted>>

\* this.close(): the handle in this.db, if any, is closed
CloseHandle ==
  /\ db' = close(State).db
  /\ handles' = IF db /\ ~db' THEN handles - 1 ELSE handles

Close ==
  /\ ~InFlight
  /\ CloseHandle
  /\ run' = Begin("close", "returned")
  /\ UNCHANGED <<outside, files, metadata, dbFile, mtime, tmpFile, metaFile, now, last, persisted>>

\* a handle that this.db no longer refers to is closed when it is collected
Collect ==
  /\ handles > (IF db THEN 1 ELSE 0)
  /\ handles' = handles - 1
  /\ UNCHANGED <<outside, files, metadata, dbFile, mtime, tmpFile, metaFile, db, now, last,
                 run, persisted>>

\* getBuffer(): close, then readFile
GetBuffer ==
  /\ ~InFlight
  /\ CloseHandle
  /\ run' = Begin("getBuffer", "readFile")
  /\ UNCHANGED <<outside, files, metadata, dbFile, mtime, tmpFile, metaFile, now, last, persisted>>

GetBufferRead ==
  /\ run.op = "getBuffer" /\ run.at = "readFile"
  /\ run' = IF IsNull(dbFile) THEN [run EXCEPT !.at = "threw"]
            ELSE [run EXCEPT !.at = "returned", !.ret = Get(dbFile)]
  /\ UNCHANGED <<outside, files, metadata, dbFile, mtime, tmpFile, metaFile, db, now, last,
                 handles, persisted>>

\* getChecksum(): close, then the digest of the file's stream
GetChecksum ==
  /\ ~InFlight
  /\ CloseHandle
  /\ run' = Begin("getChecksum", "stream")
  /\ UNCHANGED <<outside, files, metadata, dbFile, mtime, tmpFile, metaFile, now, last, persisted>>

GetChecksumStream ==
  /\ run.op = "getChecksum" /\ run.at = "stream"
  /\ run' = IF IsNull(dbFile) THEN [run EXCEPT !.at = "threw"]
            ELSE [run EXCEPT !.at = "returned", !.ret = calculateFileChecksum(Get(dbFile))]
  /\ UNCHANGED <<outside, files, metadata, dbFile, mtime, tmpFile, metaFile, db, now, last,
                 handles, persisted>>

\* the digests verifyChecksum is given: those of the contents the file can
\* have, and one that is the digest of none of them
ExpectedChecksums ==
  {calculateBufferChecksum(b) : b \in Buffers} \cup {[i \in 1..HexLen |-> HexBase - 1]}

\* ChecksumUtil.verifyChecksum(dbPath, expectedChecksum)
VerifyChecksum ==
  /\ ~InFlight
  /\ \E expectedChecksum \in ExpectedChecksums :
       run' = [Begin("verifyChecksum", "stream") EXCEPT !.expected = expectedChecksum]
  /\ UNCHANGED <<outside, files, metadata, dbFile, mtime, tmpFile, metaFile, db, now, last,
                 handles, persisted>>

VerifyChecksumStream ==
  /\ run.op = "verifyChecksum" /\ run.at = "stream"
  /\ LET v == verifyChecksum(dbFile, run.expected)
     IN run' = IF v.threw THEN [run EXCEPT !.at = "threw"]
               ELSE [run EXCEPT !.at = "returned", !.ok = v.ok]
  /\ UNCHANGED <<outside, files, metadata, dbFile, mtime, tmpFile, metaFile, db, now, last,
                 handles, persisted>>

\* replaceWithBuffer(buffer): close, then writeFile(tempPath), then rename
ReplaceWithBuffer ==
  /\ ~InFlight
  /\ CloseHandle
  /\ \E buffer \in Buffers :
       run' = [Begin("replaceWithBuffer", "openTemp") EXCEPT
                 !.buffer = buffer, !.before = dbFile]
  /\ UNCHANGED <<outside, files, metadata, dbFile, mtime, tmpFile, metaFile, now, last, persisted>>

\* FileOperations.copyFile(source, destination) with the database file as
\* destination and a source file holding buffer
CopyFile ==
  /\ ~InFlight
  /\ \E buffer \in Buffers :
       run' = [Begin("copyFile", "openTemp") EXCEPT !.buffer = buffer, !.before = dbFile]
  /\ UNCHANGED <<outside, files, metadata, dbFile, mtime, tmpFile, metaFile, db, now, last,
                 handles, persisted>>

\* the temp file is created, or truncated when an earlier call left one
TempOpen ==
  /\ run.op \in {"replaceWithBuffer", "copyFile"} /\ run.at = "openTemp"
  /\ LET fsr == WriteTemp(Paths, <<>>)
     IN /\ dbFile' = fsr.dbFile
        /\ tmpFile' = fsr.tmpFile
  /\ run' = [run EXCEPT !.at = IF Len(run.buffer) = 0 THEN "rename" ELSE "writeTemp"]
  /\ UNCHANGED <<outside, files, metadata, mtime, metaFile, db, now, last, handles, persisted>>

\* the next ChunkSize bytes reach the temp file
TempWrite ==
  /\ run.op \in {"replaceWithBuffer", "copyFile"} /\ run.at = "writeTemp"
  /\ LET written == IF IsNull(tmpFile) THEN 0 ELSE Len(Get(tmpFile))
         bytes == Prefix(run.buffer, written + ChunkSize)
         fsr == WriteTemp(Paths, bytes)
     IN /\ dbFile' = fsr.dbFile
        /\ tmpFile' = fsr.tmpFile
        /\ run' = [run EXCEPT !.at = IF bytes = run.buffer THEN "rename" ELSE "writeTemp"]
  /\ UNCHANGED <<outside, files, metadata, mtime, metaFile, db, now, last, handles, persisted>>

TempRename ==
  /\ run.op \in {"replaceWithBuffer", "copyFile"} /\ run.at = "rename"
  /\ LET fsr == Rename(Paths)
     IN /\ dbFile' = fsr.dbFile
        /\ tmpFile' = fsr.tmpFile
  /\ mtime' = now
  /\ run' = [run EXCEPT !.at = "returned"]
  /\ UNCHANGED <<outside, files, metadata, metaFile, db, now, last, handles, persisted>>

\* the step the call is at rejects, or the process stops there
StoreFail ==
  /\ InFlight
  /\ run' = [run EXCEPT !.at = "threw"]
  /\ UNCHANGED <<outside, files, metadata, dbFile, mtime, tmpFile, metaFile, db, now, last,
                 handles, persisted>>

\* between two calls the application writes or removes the database file
StoreWriteLocal == ~InFlight /\ WriteLocal
StoreDeleteLocal == ~InFlight /\ DeleteLocal

FileInit ==
  /\ files = [n \in {} |-> <<>>]
  /\ metadata = Null
  /\ dbFile \in {Null} \cup {Some(b) : b \in Buffers}
  /\ mtime = 0
  /\ tmpFile = Null
  /\ metaFile = Null
  /\ db = FALSE
  /\ now = 0
  /\ last = Idle
  /\ handles = 0
  /\ run = NoRun
  /\ persisted = Null
  /\ OutsideInit

FileNext ==
  \/ Open
  \/ Close
  \/ Collect
  \/ GetBuffer
  \/ GetBufferRead
  \/ GetChecksum
  \/ GetChecksumStream
  \/ VerifyChecksum
  \/ VerifyChecksumStream
  \/ ReplaceWithBuffer
  \/ CopyFile
  \/ TempOpen
  \/ TempWrite
  \/ TempRename
  \/ StoreFail
  \/ StoreWriteLocal
  \/ StoreDeleteLocal

SpecFile == FileInit /\ [][FileNext]_vars

\* ------------------------------------------------- the local sync record
\* Partial<LocalMetadata>: each field given (Some) or left out (Null)
Partials ==
  [lastSyncTimestamp : {Null} \cup {Some(t) : t \in Times},
   lastSyncChecksum : {Null} \cup {Some(calculateBufferChecksum(b)) : b \in Buffers}]

\* the object with the fields the caller gave
PartialOf(p) ==
  [k \in {f \in DOMAIN p : ~IsNull(p[f])} |-> Get(p[k])]

\* each field as the partial gives it, or as it was when the partial leaves it out
LatestGiven(prev, p) ==
  [lastSyncTimestamp |-> IF IsNull(p.lastSyncTimestamp) THEN prev.lastSyncTimestamp
                         ELSE Get(p.lastSyncTimestamp),
   lastSyncChecksum |-> IF IsNull(p.lastSyncChecksum) THEN prev.lastSyncChecksum
                        ELSE Get(p.lastSyncChecksum)]

\* getLocalMetadata(): existsSync, then readFile and JSON.parse
GetLocalMetadata ==
  /\ ~InFlight
  /\ run' = IF IsNull(metaFile)
            THEN [Begin("getLocalMetadata", "returned") EXCEPT !.beforeMeta = metaFile]
            ELSE [Begin("getLocalMetadata", "readMeta") EXCEPT !.beforeMeta = metaFile]
  /\ UNCHANGED <<outside, files, metadata, dbFile, mtime, tmpFile, metaFile, db, now, last,
                 handles, persisted>>

GetLocalMetadataRead ==
  /\ run.op = "getLocalMetadata" /\ run.at = "readMeta"
  /\ LET r == getLocalMetadata(metaFile, "ok")
     IN run' = IF r.threw THEN [run EXCEPT !.at = "threw"]
               ELSE [run EXCEPT !.at = "returned", !.current = r.value]
  /\ UNCHANGED <<outside, files, metadata, dbFile, mtime, tmpFile, metaFile, db, now, last,
                 handles, persisted>>

\* updateLocalMetadata(partial): getLocalMetadata, merge, writeFile
UpdateLocalMetadata ==
  /\ ~InFlight
  /\ \E partial \in Partials :
       run' = [Begin("updateLocalMetadata",
                     IF IsNull(metaFile) THEN "openMeta" ELSE "readMeta")
               EXCEPT !.partial = partial, !.beforeMeta = metaFile]
  /\ UNCHANGED <<outside, files, metadata, dbFile, mtime, tmpFile, metaFile, db, now, last,
                 handles, persisted>>

UpdateRead ==
  /\ run.op = "updateLocalMetadata" /\ run.at = "readMeta"
  /\ LET r == getLocalMetadata(metaFile, "ok")
     IN run' = IF r.threw THEN [run EXCEPT !.at = "threw"]
               ELSE [run EXCEPT !.at = "openMeta", !.current = r.value]
  /\ UNCHANGED <<outside, files, metadata, dbFile, mtime, tmpFile, metaFile, db, now, last,
                 handles, persisted>>

\* writeFile opens metadata.json for writing, which empties it
UpdateOpen ==
  /\ run.op = "updateLocalMetadata" /\ run.at = "openMeta"
  /\ metaFile' = Some(TornText)
  /\ run' = [run EXCEPT !.at = "writeMeta"]
  /\ UNCHANGED <<outside, files, metadata, dbFile, mtime, tmpFile, db, now, last,
                 handles, persisted>>

\* the whole text has reached the file
UpdateWrite ==
  /\ run.op = "updateLocalMetadata" /\ run.at = "writeMeta"
  /\ LET updated == Merge(run.current, PartialOf(run.partial))
     IN metaFile' = Some(JsonText(updated))
  /\ persisted' = Some(LatestGiven(IF IsNull(persisted) THEN DefaultLocalMetadata
                                    ELSE Get(persisted), run.partial))
  /\ run' = [run EXCEPT !.at = "closeMeta"]
  /\ UNCHANGED <<outside, files, metadata, dbFile, mtime, tmpFile, db, now, last, handles>>

UpdateClose ==
  /\ run.op = "updateLocalMetadata" /\ run.at = "closeMeta"
  /\ run' = [run EXCEPT !.at = "returned"]
  /\ UNCHANGED <<outside, files, metadata, dbFile, mtime, tmpFile, metaFile, db, now, last,
                 handles, persisted>>

RecordNext ==
  \/ GetLocalMetadata
  \/ GetLocalMetadataRead
  \/ UpdateLocalMetadata
  \/ UpdateRead
  \/ UpdateOpen
  \/ UpdateWrite
  \/ UpdateClose
  \/ StoreFail

SpecRecord == FileInit /\ [][RecordNext]_vars

\* ========================================= the Google Drive provider alone
\* One GoogleDriveProvider at a time working on one Drive account, called
\* sequentially; each call is one step.  A new provider is constructed when the process starts again
\* and whenever ensureAuthenticated or authenticate replaces it.
inside == <<files, metadata, dbFile, mtime, tmpFile, metaFile, db, now, last,
            handles, run, persisted>>

DriveCall(op, fileName, given, o) ==
  /\ ~o.full
  /\ drive' = o.drive
  /\ rootFolderId' = o.rootFolderId
  /\ seen' = [n |-> 1 - seen.n, op |-> op, fileName |-> fileName, given |-> given,
              new |-> IsNull(rootFolderId), threw |-> o.threw,
              result |-> o.result, searched |-> o.searched, placed |-> o.placed]
  /\ UNCHANGED <<inside, auth>>

\* the order of a listing matters only when two entries of one name are
\* in one folder
Choices ==
  {pick \in {"oldest", "newest"} :
     \/ pick = "oldest"
     \/ \E i, j \in DOMAIN drive :
          i < j /\ drive[i].name = drive[j].name /\ drive[i].parent = drive[j].parent}

\* given a database of one byte
UploadFile ==
  \E pick \in Choices, buffer \in {<<b>> : b \in Byte} :
    DriveCall("uploadFile", CurrentDb, Blob(buffer),
              Drive_uploadFile(Provider(pick), CurrentDb, Blob(buffer)))

DownloadFile ==
  \E pick \in Choices :
    DriveCall("downloadFile", CurrentDb, NoContent,
              Drive_downloadFile(Provider(pick), CurrentDb))

FileExists ==
  \E pick \in Choices :
    DriveCall("fileExists", CurrentDb, NoContent,
              Drive_fileExists(Provider(pick), CurrentDb))

GetMetadata ==
  \E pick \in Choices :
    DriveCall("getMetadata", MetadataJson, NoContent,
              Drive_getMetadata(Provider(pick)))

\* given the remote record of a push of a database of one byte
UpdateMetadata ==
  \E pick \in Choices, b \in Byte :
    LET m == [dbName |-> "current", lastSyncTimestamp |-> b, lastSyncType |-> "push",
              checksum |-> calculateBufferChecksum(<<b>>), version |-> SchemaVersion]
    IN DriveCall("updateMetadata", MetadataJson, JsonBuffer(m),
                 Drive_updateMetadata(Provider(pick), m))

DeleteFile ==
  \E pick \in Choices :
    DriveCall("deleteFile", CurrentDb, NoContent,
              Drive_deleteFile(Provider(pick), CurrentDb))

\* new GoogleDriveProvider(credentials, dbName, logger)
NewProvider ==
  /\ ~IsNull(rootFolderId)
  /\ rootFolderId' = Null
  /\ seen' = [NoCall EXCEPT !.n = 1 - seen.n]
  /\ UNCHANGED <<drive, inside, auth>>

DriveInit == FileInit /\ IsNull(dbFile)

DriveNext ==
  \/ UploadFile
  \/ DownloadFile
  \/ FileExists
  \/ GetMetadata
  \/ UpdateMetadata
  \/ DeleteFile
  \/ NewProvider

SpecDrive == DriveInit /\ [][DriveNext]_vars

\* ================================================== authentication alone
\* One SqliteCloudBackup at a time (a new one is constructed when the
\* process starts again), its calls made one after another; each call is
\* one step.  The engine call a facade method ends with is not looked into.
FacadeOps == {"pushToCloud", "pullFromCloud", "sync"}

ThisBackup ==
  [tokenFile |-> tokenFile, credentials |-> credentials, providerToken |-> providerToken]

Done(op, a, d) ==
  /\ tokenFile' = a.tokenFile
  /\ credentials' = a.credentials
  /\ providerToken' = a.providerToken
  /\ did' = [d EXCEPT !.op = op, !.after = did.op, !.earlier = did.after,
                       !.before = credentials, !.had = did.before]
  /\ op \notin FacadeOps
       => UNCHANGED <<files, metadata, dbFile, mtime, tmpFile, metaFile, db, now>>
  /\ UNCHANGED <<last, handles, run, persisted, drive, rootFolderId, seen, oauthFlow>>

\* new SqliteCloudBackup(config): config.credentials with or without a
\* refresh token; the provider is constructed with it
NewBackup ==
  /\ \E c \in {Null} \cup {Some(r) : r \in RefreshTokens} :
       Done("new", [ThisBackup EXCEPT !.credentials = c, !.providerToken = c], NotDone)
  /\ UNCHANGED <<saved, authenticated>>

\* pushToCloud(), pullFromCloud(), sync():
\* await this.ensureAuthenticated(); return this.syncEngine.<op>().
\* What the OAuth flow and saveTokens would do is chosen only when the flow
\* starts.  The engine is reached only when ensureAuthenticated returned;
\* every step of the engine call succeeds here.
EngineCall ==
  \E op \in FacadeOps, oauth \in OAuthOutcomes, io \in {"ok", "mkdir"} :
    LET o == ensureAuthenticated(ThisBackup, oauth, io)
        e == IF o.threw THEN State
             ELSE IF op = "pushToCloud" THEN pushToCloud(State, NoFault, now).s
             ELSE IF op = "pullFromCloud" THEN pullFromCloud(State, NoFault, 0, now).s
             ELSE sync(State, NoFault, 0, now).s
    IN /\ o.flow \/ (~oauth.ok /\ io = "ok")
       /\ Done(op, o.a,
               [NotDone EXCEPT !.threw = o.threw, !.flow = o.flow, !.via = o.via,
                               !.used = IF o.threw THEN Null ELSE Some(o.a.providerToken)])
       /\ files' = e.files /\ metadata' = e.metadata /\ dbFile' = e.dbFile
       /\ mtime' = e.mtime /\ tmpFile' = e.tmpFile /\ metaFile' = e.metaFile
       /\ db' = e.db /\ now' = e.now
       /\ authenticated' = (authenticated \/ (o.flow /\ ~o.threw))
       /\ UNCHANGED saved

Authenticate ==
  \E oauth \in OAuthOutcomes, io \in {"ok", "mkdir"} :
    LET o == authenticate(ThisBackup, oauth, io)
    IN /\ Done("authenticate", o.a,
               [NotDone EXCEPT !.threw = o.threw, !.flow = o.flow, !.via = o.via])
       /\ authenticated' = (authenticated \/ ~o.threw)
       /\ UNCHANGED saved

Logout ==
  /\ Done("logout", logout(ThisBackup), NotDone)
  /\ authenticated' = FALSE
  /\ UNCHANGED saved

NeedsAuthentication ==
  /\ Done("needsAuthentication", ThisBackup,
          [NotDone EXCEPT !.answer = needsAuthentication(ThisBackup)])
  /\ UNCHANGED <<saved, authenticated>>

IsAuthenticated ==
  /\ Done("isAuthenticated", ThisBackup,
          [NotDone EXCEPT !.answer = isAuthenticated(ThisBackup)])
  /\ UNCHANGED <<saved, authenticated>>

\* outside the program tokens.json is damaged or made unreadable; the tokens
\* an authenticate() stored are no longer there
DamageTokens ==
  /\ ~IsNull(tokenFile)
  /\ Done("damage", [ThisBackup EXCEPT !.tokenFile = Some(NotJson)], NotDone)
  /\ authenticated' = FALSE
  /\ UNCHANGED saved

\* a database file is there to be backed up
AuthInit == FileInit /\ dbFile = Some(BufferOf(NumBuffers - 1))

AuthNext ==
  \/ NewBackup
  \/ EngineCall
  \/ Authenticate
  \/ Logout
  \/ NeedsAuthentication
  \/ IsAuthenticated
  \/ DamageTokens

SpecAuth == AuthInit /\ [][AuthNext]_vars

\* --------------------------------------------------- TokenStorage alone
\* TokenStorage called directly, as the unit tests do.  It has no fields
\* besides the path, so a new TokenStorage for the same dbPath is the same.
\* saved: the tokens of the last saveTokens that returned, Null when none
\* has or clearTokens was called since.
HasTokens ==
  /\ Done("hasTokens", ThisBackup, [NotDone EXCEPT !.answer = hasTokens(tokenFile)])
  /\ UNCHANGED <<saved, authenticated>>

GetTokens ==
  /\ Done("getTokens", ThisBackup, [NotDone EXCEPT !.tokens = getTokens(tokenFile)])
  /\ UNCHANGED <<saved, authenticated>>

SaveTokens ==
  /\ \E tokens \in StoredTokens, io \in {"ok", "mkdir"} :
       LET s == saveTokens(tokenFile, tokens, io)
       IN /\ Done("saveTokens", [ThisBackup EXCEPT !.tokenFile = s.tokenFile],
                  [NotDone EXCEPT !.threw = s.threw])
          /\ saved' = IF s.threw THEN saved ELSE Some(tokens)
  /\ UNCHANGED authenticated

ClearTokens ==
  /\ Done("clearTokens", [ThisBackup EXCEPT !.tokenFile = clearTokens(@)], NotDone)
  /\ saved' = Null
  /\ UNCHANGED authenticated

TokensNext ==
  \/ HasTokens
  \/ GetTokens
  \/ SaveTokens
  \/ ClearTokens

SpecTokens == AuthInit /\ [][TokensNext]_vars

\* =========================================================== OAuthFlow alone
\* One OAuthFlow, as SqliteCloudBackup.authenticate uses it: a caller that
\* awaits each authenticate() before it calls the next.  Requests come to
\* port 3000 from the browser or from anything else on the machine.

\* startLocalServerAndWaitForCode: createServer, listen(3000) (which fails
\* when the port is taken), setTimeout
StartLocalServerAndWaitForCode ==
  /\ Len(oauthFlow.waits) < MaxFlows
  /\ \A k \in DOMAIN oauthFlow.waits : oauthFlow.waits[k].state # "waiting"
  /\ LET k == Len(oauthFlow.waits) + 1
     IN oauthFlow' =
          [oauthFlow EXCEPT
             !.server = k,
             !.listening = IF @ = {} THEN {k} ELSE @,
             !.waits = Append(@, [state |-> "waiting", code |-> 0, error |-> "",
                                  timer |-> TRUE])]
  /\ UNCHANGED <<inside, drive, rootFolderId, seen, tokenFile, credentials,
                 providerToken, did, saved, authenticated>>

\* the request handler of server k: a request to /oauth/callback with an
\* error, a code, both or neither, or a request to another path
Request ==
  \E k \in oauthFlow.listening,
     kind \in {"code", "error", "both", "neither", "other"}, code \in {1, 2} :
    /\ kind \in {"code", "both"} \/ code = 1
    /\ oauthFlow' =
         IF kind = "other"
         THEN [oauthFlow EXCEPT
                 !.answered = [status |-> 404, by |-> k, kind |-> kind, code |-> code]]
         ELSE LET status == IF kind = "code" THEN 200 ELSE 400
                  f == [stopServer(oauthFlow) EXCEPT
                          !.answered = [status |-> status, by |-> k, kind |-> kind,
                                        code |-> code]]
              IN IF kind \in {"error", "both"}
                 THEN Settle(f, k, "rejected", 0, "OAuth error")
                 ELSE IF kind = "code"
                 THEN Settle(f, k, "resolved", code, "")
                 ELSE Settle(f, k, "rejected", 0, "No authorization code received")
    /\ UNCHANGED <<inside, drive, rootFolderId, seen, tokenFile, credentials,
                   providerToken, did, saved, authenticated>>

\* the callback of the k-th setTimeout, five minutes after it was set:
\* the timers fire in the order they were set
Timeout(k) ==
  /\ k \in DOMAIN oauthFlow.waits
  /\ oauthFlow.waits[k].timer
  /\ \A j \in 1..(k - 1) : ~oauthFlow.waits[j].timer
  /\ oauthFlow' =
       [Settle(stopServer(oauthFlow), k, "rejected", 0,
               "OAuth flow timed out after 5 minutes")
        EXCEPT !.waits[k].timer = FALSE]
  /\ UNCHANGED <<inside, drive, rootFolderId, seen, tokenFile, credentials,
                 providerToken, did, saved, authenticated>>

OAuthNext ==
  \/ StartLocalServerAndWaitForCode
  \/ Request
  \/ \E k \in 1..MaxFlows : Timeout(k)

\* a timer that was set fires
SpecOAuth ==
  AuthInit /\ [][OAuthNext]_vars /\ \A k \in 1..MaxFlows : WF_vars(Timeout(k))

\* ================================================================= claims
\* the step is a call of the engine operation op
Called(op) == last' # last /\ last'.op = op

\* what sync observes in the state it starts from
CloudExists == fileExists(files, CurrentDb)
HasRecord == ~IsNull(metadata)
HasLocal == ~IsNull(dbFile)
LocalFingerprint == calculateFileChecksum(Get(dbFile))
Result == Get(last.result)

\* C1: when the remote blob and a remote record with timestamp T exist and
\* the local fingerprint differs from the record's, a sync() that gets as
\* far as choosing takes the push branch if the local modification time is
\* strictly greater than T and the pull branch otherwise (equal times pull);
\* what it returns has the direction of that branch.
C1_DirectionTieBreak ==
  [][ ( /\ Called("sync")
        /\ CloudExists /\ HasRecord /\ HasLocal
        /\ LocalFingerprint # Get(metadata).checksum
        /\ last'.branch # "none" )
      => ( /\ last'.branch = IF mtime > Get(metadata).lastSyncTimestamp
                             THEN "push" ELSE "pull"
           /\ ~last'.threw => Get(last'.result).type = last'.branch ) ]_vars

\* a sync() that went through the time comparison and pulled
C1_Witness ==
  /\ last.op = "sync" /\ last.branch = "pull" /\ ~last.threw
  /\ Len(last.calls) > 4 /\ last.calls[4] = "getModifiedTime"
  /\ Result.type = "pull"

\* C2: sync() takes the push branch whenever the remote blob does not exist
\* and whenever it exists without a remote record, whatever the local
\* modification time; when it returns, the remote record's fingerprint is
\* the fingerprint of the local bytes and bytesTransferred their length.
C2_PushWhenNoRemote ==
  [][ ( /\ Called("sync")
        /\ ~CloudExists \/ ~HasRecord
        /\ last'.branch # "none" )
      => ( /\ last'.branch = "push"
           /\ ~last'.threw =>
                /\ dbFile' = dbFile
                /\ Get(metadata').checksum = calculateBufferChecksum(Get(dbFile))
                /\ Get(last'.result).type = "push"
                /\ Get(last'.result).bytesTransferred = Len(Get(dbFile)) ) ]_vars

\* a sync() that found a blob without a record and pushed a non-empty file
C2_Witness ==
  /\ last.op = "sync" /\ last.branch = "push" /\ ~last.threw
  /\ Len(last.calls) > 3 /\ last.calls[3] = "getMetadata" /\ last.calls[4] = "getBuffer"
  /\ Result.bytesTransferred > 0

\* C3: when the remote blob and a remote record exist and the local
\* fingerprint equals the record's, sync() takes neither the push nor the
\* pull branch whatever the two times are, and what it returns is success,
\* direction bidirectional, 0 bytes, localChecksum = cloudChecksum.
C3_SkipWhenInSync ==
  [][ ( /\ Called("sync")
        /\ CloudExists /\ HasRecord /\ HasLocal
        /\ LocalFingerprint = Get(metadata).checksum )
      => ( /\ last'.branch \in {"skip", "none"}
           /\ last'.branch = "none" => last'.threw
           /\ last'.branch = "skip" =>
                /\ ~last'.threw
                /\ Get(last'.result).success
                /\ Get(last'.result).type = "bidirectional"
                /\ Get(last'.result).bytesTransferred = 0
                /\ Get(last'.result).localChecksum = Get(last'.result).cloudChecksum
                /\ Get(last'.result).localChecksum = LocalFingerprint ) ]_vars

\* a sync() that skipped although the file is newer than the record
C3_Witness ==
  /\ last.op = "sync" /\ last.branch = "skip" /\ ~last.threw
  /\ HasRecord /\ mtime > Get(metadata).lastSyncTimestamp

\* the last call was a push (made directly or by sync) that returned
PushReturned ==
  /\ ~last.threw
  /\ last.op = "pushToCloud" \/ (last.op = "sync" /\ last.branch = "push")

\* C4: a sync() that returns, made right after a sync() that returned (only
\* time passes in between, neither the local file nor the remote store
\* changes), returns direction bidirectional with bytesTransferred = 0.
C4_SecondSyncIsNoOp ==
  [][ ( /\ SyncReturned(last)
        /\ Called("sync") /\ ~last'.threw )
      => ( /\ last'.branch = "skip"
           /\ Get(last'.result).type = "bidirectional"
           /\ Get(last'.result).bytesTransferred = 0 ) ]_vars

\* a sync() that skipped, called with the outcome of a sync() that returned
\* in hand, the local record still that of the push that wrote the remote one
C4_Witness ==
  /\ last.op = "sync" /\ last.after = "syncReturned"
  /\ last.branch = "skip" /\ ~last.threw
  /\ HasRecord /\ ~IsNull(metaFile) /\ Get(metaFile).parses
  /\ Get(metaFile).value.lastSyncChecksum = Get(metadata).checksum
  /\ Get(metaFile).value.lastSyncChecksum = Result.localChecksum

\* the remote record's fingerprint is not that of the remote blob
RecordMismatchesBlob ==
  /\ CloudExists /\ HasRecord
  /\ Get(metadata).checksum # calculateBufferChecksum(files[CurrentDb])

\* C5: when a remote record exists whose fingerprint differs from that of
\* the blob, pull() (called directly or by sync()) throws, with the
\* integrity error unless a transport call failed first, and the local file,
\* its modification time and the local sync record are as before the call.
C5_CorruptionDetected ==
  [][ ( /\ RecordMismatchesBlob
        /\ Called("pullFromCloud") \/ (Called("sync") /\ last'.branch = "pull") )
      => ( /\ last'.threw
           /\ last'.error \in {"Checksum mismatch - data corruption detected", "TransportError"}
           /\ last'.calls[Len(last'.calls)] \in {"fileExists", "downloadFile", "getMetadata"}
           /\ dbFile' = dbFile /\ mtime' = mtime /\ tmpFile' = tmpFile
           /\ metaFile' = metaFile ) ]_vars

\* a pull made by sync() that stopped on the integrity error
C5_Witness ==
  /\ last.op = "sync" /\ last.branch = "pull" /\ last.threw
  /\ last.error = "Checksum mismatch - data corruption detected"
  /\ HasLocal /\ RecordMismatchesBlob

\* the remote store as a push that returned leaves it
RecordMatchesBlob ==
  /\ CloudExists /\ HasRecord
  /\ Get(metadata).lastSyncType = "push"
  /\ Get(metadata).checksum = calculateBufferChecksum(files[CurrentDb])

LocalRecordReadable == IsNull(metaFile) \/ Get(metaFile).parses

\* C6: with the remote as a push of content C left it, a pull() (whatever
\* the local file holds, or when there is none) fails only if one of its
\* I/O steps fails, and when it returns the local file is byte-identical
\* to C and the local record's fingerprint is the fingerprint of C.
C6_RoundTrip ==
  [][ ( /\ RecordMatchesBlob /\ LocalRecordReadable
        /\ Called("pullFromCloud") )
      => ( /\ last'.threw => last'.error \in {"IOError", "TransportError"}
           /\ ~last'.threw =>
                /\ dbFile' = Some(files[CurrentDb])
                /\ Get(metaFile').parses
                /\ Get(metaFile').value.lastSyncChecksum
                     = calculateBufferChecksum(files[CurrentDb])
                /\ Get(last'.result).type = "pull"
                /\ files' = files /\ metadata' = metadata ) ]_vars

\* a pull that returned, verified against a record, with a non-empty file
C6_Witness ==
  /\ last.op = "pullFromCloud" /\ ~last.threw
  /\ RecordMatchesBlob
  /\ dbFile = Some(files[CurrentDb]) /\ Len(Get(dbFile)) > 0

\* C7: after a push() of local bytes B that returned, the remote blob
\* current.db equals B, the remote record has direction push, fingerprint
\* fingerprint(B) and version 1, and the result has direction push,
\* bytesTransferred = length(B), localChecksum = cloudChecksum = fingerprint(B).
C7_PushPostcondition ==
  PushReturned =>
    /\ HasLocal /\ CloudExists /\ HasRecord
    /\ files[CurrentDb] = Get(dbFile)
    /\ Get(metadata).lastSyncType = "push"
    /\ Get(metadata).checksum = calculateBufferChecksum(Get(dbFile))
    /\ Get(metadata).version = 1
    /\ Result.success /\ Result.type = "push"
    /\ Result.bytesTransferred = Len(Get(dbFile))
    /\ Result.localChecksum = calculateBufferChecksum(Get(dbFile))
    /\ Result.cloudChecksum = Result.localChecksum

\* a direct push of a non-empty file that returned
C7_Witness ==
  /\ last.op = "pushToCloud" /\ ~last.threw
  /\ HasLocal /\ Len(Get(dbFile)) > 0 /\ Result.bytesTransferred > 0

\* C8: after every push() that returned, the local sync record's timestamp
\* and fingerprint are those of the remote record that push wrote.
C8_LocalRecordMirrorsRemote ==
  PushReturned =>
    /\ ~IsNull(metaFile) /\ Get(metaFile).parses /\ HasRecord
    /\ Get(metaFile).value.lastSyncTimestamp = Get(metadata).lastSyncTimestamp
    /\ Get(metaFile).value.lastSyncChecksum = Get(metadata).checksum
    /\ Get(metadata).lastSyncTimestamp = Result.timestamp

\* a push that returned at a later tick than the first one
C8_Witness ==
  /\ PushReturned /\ ~IsNull(metaFile)
  /\ Get(metaFile).value.lastSyncTimestamp > 0
  /\ Len(Get(metaFile).value.lastSyncChecksum) > 0

LastCall(l) == l.calls[Len(l.calls)]

\* C9: when push() (called directly or by sync()) fails while reading the
\* local buffer, uploading, or writing the remote record, the call throws
\* without a result, starts no further step, and the local sync record is
\* exactly what it was before the call.
C9_FailedPushKeepsLocalRecord ==
  [][ ( /\ Called("pushToCloud") \/ Called("sync")
        /\ last'.threw
        /\ LastCall(last') \in {"getBuffer", "uploadFile", "updateMetadata"} )
      => ( /\ metaFile' = metaFile
           /\ IsNull(last'.result)
           /\ \A i \in 1..Len(last'.calls) : last'.calls[i] # "updateLocalMetadata" ) ]_vars

\* a push that failed writing the remote record while a local record exists
C9_Witness ==
  /\ last.op = "pushToCloud" /\ last.threw
  /\ LastCall(last) = "updateMetadata"
  /\ ~IsNull(metaFile)

\* the call of this step was not stopped by a failing I/O step
Unhindered == ~(last'.threw /\ last'.error \in {"IOError", "TransportError"})

EndsWith(seq, suffix) ==
  /\ Len(seq) >= Len(suffix)
  /\ SubSeq(seq, Len(seq) - Len(suffix) + 1, Len(seq)) = suffix

\* every step of the operation completed: the calls made are those of a
\* whole push, of a whole pull, or (sync) the three probes of the no-op
AllStepsDone(l) ==
  \/ EndsWith(l.calls, PushCalls) /\ l.log[Len(l.log)] = "Push successful"
  \/ EndsWith(l.calls, PullCalls) /\ l.log[Len(l.log)] = "Pull successful"
  \/ l.branch = "skip" /\ l.calls = SubSeq(SyncCalls, 1, 3)
       /\ l.log = <<"Already in sync">>

\* the call logged its failure last
LoggedFailure(l) ==
  l.log[Len(l.log)] = (IF l.op = "pushToCloud" THEN "Push failed"
                       ELSE IF l.op = "pullFromCloud" THEN "Pull failed"
                       ELSE "Sync failed")

\* an outcome that returned although step `fault` was made to fail is the
\* outcome of the call in which no step fails: the failing step was not
\* one of the call's steps
NotReached(o, clean) == ~o.threw => o = clean

\* C11: every outcome of push(), pull() and sync() is either a returned
\* result with success = true, reached only when every step of the
\* operation completed, or a throw without a result whose last log line is
\* the failure line; and a call in which a step fails never returns,
\* whichever step it is and whatever the state.
C11_NoFailureAsSuccess ==
  /\ last.op # "idle" =>
       /\ last.threw <=> IsNull(last.result)
       /\ ~last.threw => /\ Result.success
                         /\ last.error = ""
                         /\ AllStepsDone(last)
       /\ last.threw => /\ last.error # ""
                        /\ LoggedFailure(last)
                        /\ ~AllStepsDone(last)
  /\ last.op = "idle" =>
       /\ \A fault \in PushFaults :
            NotReached(pushToCloud(State, fault, now), pushToCloud(State, NoFault, now))
       /\ \A fault \in PullFaults, cut \in CutPoints :
            NotReached(pullFromCloud(State, fault, cut, now),
                       pullFromCloud(State, NoFault, 0, now))
       /\ \A fault \in SyncFaults \cup PushFaults \cup PullFaults, cut \in CutPoints :
            NotReached(sync(State, fault, cut, now), sync(State, NoFault, 0, now))

\* a push that uploaded the blob and wrote the remote record, failed on the
\* local record, and threw without a result
C11_Witness ==
  /\ last.op = "pushToCloud" /\ last.threw /\ IsNull(last.result)
  /\ last.calls = PushCalls
  /\ CloudExists /\ HasRecord /\ HasLocal
  /\ Get(metadata).checksum = calculateBufferChecksum(Get(dbFile))
  /\ Get(metadata).lastSyncTimestamp = now

\* the remote store holds no blob under the name the engine uses
NoBlob == CurrentDb \notin DOMAIN files

\* C12: a pull() made when the remote blob does not exist throws before any
\* download is attempted (fileExists is its only call), with 'No cloud
\* version found' whenever fileExists itself answers, and leaves the local
\* file, its temp file, the local sync record and the remote store unchanged.
C12_PullWithoutBlob ==
  [][ ( Called("pullFromCloud") /\ NoBlob )
      => ( /\ last'.threw
           /\ last'.calls = <<"fileExists">>
           /\ last'.error \in {"No cloud version found", "TransportError"}
           /\ \A fault \in (PullFaults \cup {NoFault}) \ {<<"pull", "fileExists">>} :
                pullFromCloud(State, fault, 0, now).error = "No cloud version found"
           /\ dbFile' = dbFile /\ mtime' = mtime /\ tmpFile' = tmpFile
           /\ metaFile' = metaFile
           /\ files' = files /\ metadata' = metadata ) ]_vars

\* a pull that stopped on the not-found error with a local file in place
C12_Witness ==
  /\ last.op = "pullFromCloud" /\ last.threw
  /\ last.error = "No cloud version found"
  /\ NoBlob /\ HasLocal /\ Len(Get(dbFile)) > 0

\* C13: a pull() made when the remote blob exists and there is no remote
\* record fails only if one of its I/O steps fails (the verification is
\* skipped), and when it returns the local file holds exactly the blob's
\* bytes, the local record's fingerprint is the fingerprint of those bytes,
\* and the result has direction pull and bytesTransferred = the blob length.
C13_PullWithoutRecord ==
  [][ ( Called("pullFromCloud") /\ CloudExists /\ ~HasRecord )
      => ( /\ last'.threw => last'.error \in {"IOError", "TransportError"}
           /\ LocalRecordReadable => ~pullFromCloud(State, NoFault, 0, now).threw
           /\ ~last'.threw =>
                /\ dbFile' = Some(files[CurrentDb])
                /\ tmpFile' = Null
                /\ Get(metaFile').parses
                /\ Get(metaFile').value.lastSyncChecksum
                     = calculateBufferChecksum(files[CurrentDb])
                /\ Get(last'.result).type = "pull"
                /\ Get(last'.result).bytesTransferred = Len(files[CurrentDb])
                /\ files' = files /\ metadata' = metadata ) ]_vars

\* a pull that returned without a record to verify against and replaced a
\* local file that held something else
C13_Witness ==
  /\ last.op = "pullFromCloud" /\ ~last.threw
  /\ CloudExists /\ ~HasRecord
  /\ dbFile = Some(files[CurrentDb])
  /\ Result.bytesTransferred > 0
  /\ Get(metaFile).value.lastSyncChecksum = calculateBufferChecksum(files[CurrentDb])

\* every local sync record the metadata file can hold, and no file at all
LocalRecords ==
  {Null, Some(TornText)} \cup
  {Some(JsonText([lastSyncTimestamp |-> t, lastSyncChecksum |-> calculateBufferChecksum(b)])) :
     t \in Times, b \in Buffers}

\* the choice as a function of the observations alone
Decide(cloudExists, hasRecord, recordChecksum, recordTimestamp, localChecksum, localModified) ==
  IF ~cloudExists \/ ~hasRecord THEN "push"
  ELSE IF localChecksum = recordChecksum THEN "skip"
  ELSE IF localModified > recordTimestamp THEN "push"
  ELSE "pull"

\* Decide applied to what the current state lets sync() observe
DecideNow ==
  Decide(CurrentDb \in DOMAIN files, ~IsNull(metadata),
         IF IsNull(metadata) THEN <<>> ELSE Get(metadata).checksum,
         IF IsNull(metadata) THEN 0 ELSE Get(metadata).lastSyncTimestamp,
         IF IsNull(dbFile) THEN <<>> ELSE calculateBufferChecksum(Get(dbFile)),
         mtime)

\* C16: the branch a sync() takes is a function of the observations only
\* (blob existence, record presence, record fingerprint and timestamp, local
\* fingerprint, local modification time): in every reachable state, whatever
\* happened before, it is Decide of them, and the same sync() run with any
\* other local sync record takes the same branch.
C16_SyncIsStateless ==
  [][ ( Called("sync") /\ last'.branch # "none" )
      => ( /\ last'.branch = DecideNow
           /\ \A mf \in LocalRecords :
                sync([State EXCEPT !.metaFile = mf], NoFault, 0, now).branch
                  = DecideNow ) ]_vars

\* a sync() that chose to push (and failed uploading) although the local
\* sync record says the local bytes are those last synchronised
C16_Witness ==
  /\ last.op = "sync" /\ last.branch = "push" /\ last.threw
  /\ LastCall(last) = "uploadFile"
  /\ CloudExists /\ ~HasRecord /\ HasLocal
  /\ ~IsNull(metaFile) /\ Get(metaFile).parses
  /\ Get(metaFile).value.lastSyncChecksum = LocalFingerprint

Count(seq, x) == Cardinality({i \in 1..Len(seq) : seq[i] = x})

\* what a call whose last started step is `step`, and failed, may have
\* changed: nothing that a later step of the operation writes
NothingAfter(step) ==
  /\ step \in {"fileExists", "getChecksum", "getMetadata", "getModifiedTime",
               "getBuffer", "downloadFile", "uploadFile"}
       => /\ files' = files /\ metadata' = metadata
          /\ dbFile' = dbFile /\ mtime' = mtime /\ tmpFile' = tmpFile
          /\ metaFile' = metaFile
  /\ step = "updateMetadata"
       => /\ metadata' = metadata /\ metaFile' = metaFile
          /\ dbFile' = dbFile /\ mtime' = mtime /\ tmpFile' = tmpFile
  /\ step = "replaceWithBuffer"
       => /\ files' = files /\ metadata' = metadata
          /\ dbFile' = dbFile /\ mtime' = mtime
          /\ metaFile' = metaFile

\* C17: in every push(), pull() and sync() call, uploadFile, downloadFile
\* and updateMetadata are each started at most once, and when the call
\* throws the failing step is the last step it started: nothing a later
\* step of the operation writes has changed.
C17_NoRetry ==
  [][ ( Called("pushToCloud") \/ Called("pullFromCloud") \/ Called("sync") )
      => ( /\ \A x \in {"uploadFile", "downloadFile", "updateMetadata"} :
                Count(last'.calls, x) <= 1
           /\ last'.threw => NothingAfter(LastCall(last')) ) ]_vars

\* a sync() whose push failed on the upload, the remote store untouched
C17_Witness ==
  /\ last.op = "sync" /\ last.threw /\ last.branch = "push"
  /\ LastCall(last) = "uploadFile"
  /\ Count(last.calls, "uploadFile") = 1
  /\ CloudExists /\ HasLocal /\ files[CurrentDb] # Get(dbFile)

\* the step belongs to a replaceWithBuffer or copyFile call
ReplaceStep ==
  /\ run'.op \in {"replaceWithBuffer", "copyFile"}
  /\ InFlight \/ run' # run

\* C14: at every step of replaceWithBuffer and of FileOperations.copyFile the
\* destination holds either exactly what it held when the call began or
\* exactly the new bytes; it holds the new bytes once the call has returned
\* and, when the call fails at any step (the temp file unwritten, partly
\* written, or written and not yet renamed), what it held when the call began.
C14_AtomicReplace ==
  [][ ReplaceStep
      => ( /\ dbFile' = run'.before \/ dbFile' = Some(run'.buffer)
           /\ run'.at # "returned" => dbFile' = run'.before /\ mtime' = mtime
           /\ run'.at = "returned" => dbFile' = Some(run'.buffer) /\ tmpFile' = Null ) ]_vars

\* a replaceWithBuffer that failed between the temp write and the rename:
\* the temp file holds the new bytes, the destination still the old ones
C14_Witness ==
  /\ run.op = "replaceWithBuffer" /\ run.at = "threw"
  /\ tmpFile = Some(run.buffer)
  /\ ~IsNull(dbFile) /\ dbFile = run.before
  /\ dbFile # Some(run.buffer)

\* C20: whenever getBuffer(), getChecksum() or replaceWithBuffer() is at a
\* step that reads or writes the file, no Database handle opened by the
\* manager is open on it, whatever open() and close() calls came before.
C20_NoHandleDuringFileIo ==
  (run.op \in {"getBuffer", "getChecksum", "replaceWithBuffer"} /\ InFlight)
    => (~db /\ handles = 0)

SameRecord(a, b) ==
  /\ DOMAIN a = {"lastSyncTimestamp", "lastSyncChecksum"}
  /\ DOMAIN b = DOMAIN a
  /\ a.lastSyncTimestamp = b.lastSyncTimestamp
  /\ a.lastSyncChecksum = b.lastSyncChecksum

\* C15: when updateLocalMetadata fails or is stopped at any of its steps
\* (the record readable when it began), getLocalMetadata() afterwards
\* returns either the complete record of before the call or the complete
\* merged record.
C15_RecordPersistedAtomically ==
  ( /\ run.op = "updateLocalMetadata" /\ run.at = "threw"
    /\ ~getLocalMetadata(run.beforeMeta, "ok").threw )
  => LET previous == getLocalMetadata(run.beforeMeta, "ok").value
         merged == Merge(previous, PartialOf(run.partial))
         r == getLocalMetadata(metaFile, "ok")
     IN /\ ~r.threw
        /\ SameRecord(r.value, previous) \/ SameRecord(r.value, merged)

\* C18: at every moment the persisted record, when it is a complete one,
\* holds in each field the value given by the most recent update (written
\* in full) that included the field, or the default if none did; and an
\* update that returned leaves a complete record.
C18_UpdateIsMerge ==
  /\ (~IsNull(metaFile) /\ Get(metaFile).parses)
       => /\ ~IsNull(persisted)
          /\ SameRecord(Get(metaFile).value, Get(persisted))
  /\ (run.op = "updateLocalMetadata" /\ run.at = "returned")
       => (~IsNull(metaFile) /\ Get(metaFile).parses)

\* an update of the fingerprint alone that returned: the timestamp is the
\* one an earlier update gave, the fingerprint the new one
C18_Witness ==
  /\ run.op = "updateLocalMetadata" /\ run.at = "returned"
  /\ IsNull(run.partial.lastSyncTimestamp) /\ ~IsNull(run.partial.lastSyncChecksum)
  /\ run.current.lastSyncTimestamp > 0
  /\ run.current.lastSyncChecksum # Get(run.partial.lastSyncChecksum)
  /\ Get(metaFile).value.lastSyncTimestamp = run.current.lastSyncTimestamp
  /\ Get(metaFile).value.lastSyncChecksum = Get(run.partial.lastSyncChecksum)

\* C19: a getLocalMetadata() call never writes the record file (it creates
\* none when there is none), and what it returns is the default record as
\* long as no update has been written, and otherwise the record the updates
\* written so far left.
C19_GetLocalMetadata ==
  [][ ( run'.op = "getLocalMetadata" /\ (InFlight \/ run' # run) )
      => ( /\ metaFile' = metaFile
           /\ run'.at = "returned"
                => SameRecord(run'.current,
                              IF IsNull(persisted) THEN DefaultLocalMetadata
                              ELSE Get(persisted))
           /\ (run'.at = "returned" /\ IsNull(persisted))
                => (IsNull(metaFile') /\ run'.current = DefaultLocalMetadata) ) ]_vars

\* a getLocalMetadata() that returned a record written by two updates
C19_Witness ==
  /\ run.op = "getLocalMetadata" /\ run.at = "returned"
  /\ ~IsNull(persisted)
  /\ run.current.lastSyncTimestamp > 0
  /\ Len(run.current.lastSyncChecksum) > 0

\* C21: once a close() has returned, whatever open() and close() calls came
\* before it, the manager holds no handle and no Database handle it opened
\* is still open on the file.
C21_CloseReleasesEveryHandle ==
  (run.op = "close" /\ run.at = "returned") => (~db /\ handles = 0)

\* what getMetadata returns for the record m
RecordOf(m) == [checksum |-> m.checksum, modifiedAt |-> m.lastSyncTimestamp, size |-> 0]

\* C22: once updateMetadata(m) has returned on a GoogleDriveProvider,
\* whatever calls the provider served before, a getMetadata() made next
\* returns a record with the checksum and the timestamp of m.
C22_ReadAfterWrite ==
  (seen.op = "updateMetadata" /\ ~seen.threw)
    => \A pick \in Choices :
         LET r == Drive_getMetadata(Provider(pick))
         IN /\ ~r.threw
            /\ r.result.metadata = Some(RecordOf(Get(seen.given.json).value))

\* the database folders of the account
DbFolders == {i \in DOMAIN drive : drive[i].folder /\ drive[i].name = DbName}

\* C23: once uploadFile(name, bytes) has returned, whatever uploads came
\* before, exactly one file called name is in the provider's folder, it
\* holds bytes, and downloadFile(name) returns bytes.
C23_UploadReplaces ==
  (seen.op = "uploadFile" /\ ~seen.threw)
    => /\ LET named == {i \in DOMAIN drive :
                          /\ ~drive[i].folder /\ drive[i].name = seen.fileName
                          /\ drive[i].parent \in DbFolders}
          IN /\ Cardinality(named) = 1
             /\ \A i \in named : drive[i].content = seen.given
       /\ \A pick \in Choices :
            LET d == Drive_downloadFile(Provider(pick), seen.fileName)
            IN ~d.threw /\ d.result.content = Some(seen.given)

\* C24: every file a provider call creates is placed in, and every lookup
\* it makes searches, the database folder and never the root folder.
C24_OnlyTheDbFolder ==
  /\ seen.searched \subseteq {DbName}
  /\ seen.placed \subseteq {DbName}

C28_DigestConsistency ==
  [][ /\ ~IsNull(dbFile)
           => LET B == Get(dbFile)
              IN /\ calculateFileChecksum(B) = calculateBufferChecksum(B)
                 /\ \A d \in ExpectedChecksums :
                      verifyChecksum(dbFile, d) =
                        [threw |-> FALSE, ok |-> (d = calculateBufferChecksum(B))]
      /\ (run.op = "getChecksum" /\ run.at = "stream" /\ run'.at = "returned")
           => run'.ret = calculateBufferChecksum(Get(dbFile))
      /\ (run.op = "verifyChecksum" /\ run.at = "stream" /\ run'.at = "returned")
           => (run'.ok <=> run'.expected = calculateBufferChecksum(Get(dbFile))) ]_vars

\* a verifyChecksum that was given the digest of other bytes returned false
C28_Witness ==
  /\ run.op = "verifyChecksum" /\ run.at = "returned" /\ ~run.ok
  /\ ~IsNull(dbFile) /\ Len(Get(dbFile)) > 0
  /\ run.expected # calculateFileChecksum(Get(dbFile))
  /\ \E b \in Buffers : run.expected = calculateBufferChecksum(b)

\* a push made directly or by sync()
PushMade == Called("pushToCloud") \/ (Called("sync") /\ last'.branch = "push")

Started(calls, name) == \E i \in 1..Len(calls) : calls[i] = name

\* in calls, every start of step b comes after a start of step a
ComesAfter(calls, a, b) ==
  \A j \in 1..Len(calls) : calls[j] = b => \E i \in 1..(j - 1) : calls[i] = a

\* the remote record holds the fingerprint of the remote blob
RecordIsOfBlob(fs, md) ==
  /\ CurrentDb \in DOMAIN fs /\ ~IsNull(md)
  /\ Get(md).checksum = calculateBufferChecksum(fs[CurrentDb])

\* C29: in every push(), made directly or by sync(), the remote record write
\* starts only after the blob upload, with the uploaded bytes in place, and
\* the local record update starts only after the remote record write, with
\* the record of this push in place; so a push that changes the remote
\* record leaves it with the fingerprint of the uploaded blob, and a push
\* that changes the local record has written the remote record.
C29_PushStepOrdering ==
  [][ PushMade =>
        /\ ComesAfter(last'.calls, "uploadFile", "updateMetadata")
        /\ ComesAfter(last'.calls, "updateMetadata", "updateLocalMetadata")
        /\ Started(last'.calls, "updateMetadata")
             => (CurrentDb \in DOMAIN files' /\ files'[CurrentDb] = Get(dbFile))
        /\ metadata' # metadata => RecordIsOfBlob(files', metadata')
        /\ (Started(last'.calls, "updateLocalMetadata") \/ metaFile' # metaFile)
             => /\ RecordIsOfBlob(files', metadata')
                /\ Get(metadata').lastSyncType = "push"
                /\ Get(metadata').lastSyncTimestamp = now' ]_vars

\* a push that uploaded new bytes over an older blob and record and then
\* failed to write the remote record
C29_Witness ==
  /\ last.op \in {"pushToCloud", "sync"} /\ last.threw
  /\ LastCall(last) = "updateMetadata"
  /\ HasLocal /\ CloudExists /\ HasRecord
  /\ files[CurrentDb] = Get(dbFile)
  /\ Get(metadata).checksum # calculateBufferChecksum(files[CurrentDb])

\* C30: sync() makes its checks in the order blob existence, record
\* presence, local fingerprint: it looks for the remote record only after
\* the blob, fingerprints the local file only after the record lookup and
\* only when a record was there, and so a sync() that finds the blob without
\* a record goes to push() without having fingerprinted the local file.
C30_ChecksInOrder ==
  [][ Called("sync") =>
        /\ ComesAfter(last'.calls, "fileExists", "getMetadata")
        /\ ComesAfter(last'.calls, "getMetadata", "getChecksum")
        /\ Started(last'.calls, "getChecksum") => HasRecord
        /\ (CloudExists /\ ~HasRecord /\ last'.branch = "push")
             => ~Started(last'.calls, "getChecksum") ]_vars

\* C31: a sync() that returns the no-op result leaves the local file (bytes
\* and modification time), the local sync record, the remote blob and the
\* remote record as they were before the call, and starts no upload,
\* download, record write or local replace: its only calls are fileExists,
\* getChecksum and getMetadata.
C31_NoOpChangesNothing ==
  [][ (Called("sync") /\ last'.branch = "skip")
      => ( /\ ~last'.threw
           /\ dbFile' = dbFile /\ mtime' = mtime /\ tmpFile' = tmpFile
           /\ metaFile' = metaFile
           /\ files' = files /\ metadata' = metadata
           /\ \A i \in 1..Len(last'.calls) :
                last'.calls[i] \in {"fileExists", "getChecksum", "getMetadata"} ) ]_vars

\* a no-op sync() of a non-empty database whose local record is that of an
\* earlier push of other bytes
C31_Witness ==
  /\ last.op = "sync" /\ last.branch = "skip" /\ ~last.threw
  /\ HasLocal /\ CloudExists /\ HasRecord /\ Len(Get(dbFile)) > 0
  /\ ~IsNull(metaFile) /\ Get(metaFile).parses
  /\ Get(metaFile).value.lastSyncChecksum # Get(metadata).checksum

\* a pull made directly or by sync()
PullMade == Called("pullFromCloud") \/ (Called("sync") /\ last'.branch = "pull")

\* C32: a pull(), made directly or by sync(), whether it returns or throws,
\* leaves the remote blob and the remote record as they were and starts no
\* upload and no remote record write; a push(), whether it returns or
\* throws, leaves the bytes and the modification time of the local file as
\* they were.
C32_OneWayFrames ==
  [][ /\ PullMade
           => ( /\ files' = files /\ metadata' = metadata
                /\ ~Started(last'.calls, "uploadFile")
                /\ ~Started(last'.calls, "updateMetadata") )
      /\ PushMade
           => ( /\ dbFile' = dbFile /\ mtime' = mtime
                /\ ~Started(last'.calls, "replaceWithBuffer") ) ]_vars

\* a pull that replaced the local file with other bytes and then failed to
\* update the local record
C32_Witness ==
  /\ last.op \in {"pullFromCloud", "sync"} /\ last.threw
  /\ LastCall(last) = "updateLocalMetadata" /\ Started(last.calls, "replaceWithBuffer")
  /\ HasLocal /\ CloudExists /\ HasRecord /\ Get(dbFile) = files[CurrentDb]
  /\ Len(Get(dbFile)) > 0

\* the last call was a sync() that returned the no-op result
NoOpReturned == last.op = "sync" /\ last.branch = "skip" /\ ~last.threw

\* C33: with the engine the only writer of a remote store that began empty,
\* whenever sync() returns the no-op result the bytes of the remote blob are
\* the bytes of the local file.
C33_NoOpMeansSameBytes ==
  NoOpReturned => (HasLocal /\ CloudExists /\ files[CurrentDb] = Get(dbFile))

\* C34: no unpushed local content is lost.  Taken from a state in which
\* nothing was ever uploaded (no blob, no record): push() reads the local
\* bytes and returns, stamping the record at tick stamp; the application
\* writes bytes b at tick written, after that read and no later than the
\* stamp; then sync() runs at tick later.  If sync() takes the pull branch
\* and replaces the local file, the bytes it overwrites are bytes a push
\* that returned has uploaded: those the one push read.
C34_NoUnpushedContentLost ==
  (NoBlob /\ ~HasRecord /\ HasLocal) =>
    \A b \in Buffers, stamp \in Times, written \in Times, later \in Times :
      (now <= written /\ written <= stamp /\ stamp <= later) =>
        LET pushed == pushToCloud(State, NoFault, stamp)
            during == [pushed.s EXCEPT !.dbFile = Some(b), !.mtime = written]
            synced == sync(during, NoFault, 0, later)
        IN (~pushed.threw /\ synced.branch = "pull" /\ synced.s.dbFile # during.dbFile)
             => b = Get(dbFile)

\* C35: whatever the credentials and tokens.json are (absent, valid, or
\* there and unreadable), needsAuthentication() would return true exactly
\* when the pushToCloud, pullFromCloud or sync called next starts the
\* OAuth flow.
C35_NeedsAuthenticationAgrees ==
  [][ (did' # did /\ did'.op \in FacadeOps)
      => (did'.flow <=> needsAuthentication(ThisBackup)) ]_vars

\* C36: a facade pushToCloud, pullFromCloud or sync reaches the engine only
\* after ensureAuthenticated has returned, with the provider it left; when
\* the authentication fails (the OAuth flow rejects or the tokens cannot be
\* saved) the engine is not called, credentials.refreshToken stays unset,
\* and the local file, the local record, the remote blob and the remote
\* record are as before the call.
C36_AuthenticationFirst ==
  [][ (did' # did /\ did'.op \in FacadeOps)
      => /\ did'.threw
              => /\ IsNull(did'.used)
                 /\ IsNull(credentials) /\ IsNull(credentials')
                 /\ dbFile' = dbFile /\ mtime' = mtime /\ metaFile' = metaFile
                 /\ files' = files /\ metadata' = metadata
         /\ ~did'.threw
              => /\ ~IsNull(credentials') /\ did'.used = Some(credentials')
                 /\ did'.flow => ~IsNull(getTokens(tokenFile')) ]_vars

\* the tokens could not be saved where the engine, had it been called,
\* would have uploaded the database
C36_Witness ==
  /\ did.op \in FacadeOps /\ did.threw /\ did.flow
  /\ HasLocal /\ NoBlob /\ ~HasRecord /\ IsNull(metaFile)
  /\ IsNull(credentials) /\ IsNull(tokenFile)

\* the k-th wait has been started / has settled
Waited(k) == k \in DOMAIN oauthFlow.waits
Settled(k) == Waited(k) /\ oauthFlow.waits[k].state # "waiting"

\* C37: a wait for the callback settles, and once: on a callback with a
\* code (and no error) it resolves with that code, on one with an error or
\* with neither it rejects, and when its five minutes pass it rejects with
\* the timeout; a wait that has settled stays as it settled and its server
\* is not listening; a request to another path is answered 404 and changes
\* nothing else.
C37_CallbackWaitSettlesOnce ==
  /\ [][ /\ \A k \in DOMAIN oauthFlow.waits :
              LET w == oauthFlow.waits[k]
                  v == oauthFlow'.waits[k]
                  a == oauthFlow'.answered
              IN /\ w.state # "waiting"
                      => (v.state = w.state /\ v.code = w.code /\ v.error = w.error)
                 /\ v.state # "waiting" => k \notin oauthFlow'.listening
                 /\ (w.state = "waiting" /\ v.state = "resolved")
                      => (a.by = k /\ a.kind = "code" /\ a.status = 200 /\ v.code = a.code)
                 /\ (w.state = "waiting" /\ v.state = "rejected")
                      => \/ /\ w.timer /\ ~v.timer
                            /\ v.error = "OAuth flow timed out after 5 minutes"
                         \/ /\ a.by = k /\ a.status = 400
                            /\ a.kind \in {"error", "both"} /\ v.error = "OAuth error"
                         \/ /\ a.by = k /\ a.status = 400
                            /\ a.kind = "neither"
                            /\ v.error = "No authorization code received"
                 /\ (w.state = "waiting" /\ k \in oauthFlow.listening
                     /\ a # oauthFlow.answered /\ a.by = k /\ a.kind # "other")
                      => v.state = (IF a.kind = "code" THEN "resolved" ELSE "rejected")
         /\ (oauthFlow'.answered # oauthFlow.answered /\ oauthFlow'.answered.kind = "other")
              => /\ oauthFlow'.answered.status = 404
                 /\ oauthFlow' = [oauthFlow EXCEPT !.answered = oauthFlow'.answered] ]_vars
  /\ \A k \in 1..MaxFlows : Waited(k) ~> Settled(k)

\* the first wait resolved with a code, and the second, started within the
\* five minutes of the first, was rejected by its own timer
C37_Witness ==
  /\ Settled(1) /\ oauthFlow.waits[1].state = "resolved" /\ oauthFlow.waits[1].code = 2
  /\ Settled(2) /\ oauthFlow.waits[2].error = "OAuth flow timed out after 5 minutes"
  /\ oauthFlow.listening = {}

\* C38: the timer of a wait that has settled, when it fires, leaves the
\* callback server of a wait started later listening and this.server as
\* it is.
C38_TimerAffectsOnlyItsOwnCall ==
  [][ \A k \in DOMAIN oauthFlow.waits :
        (Settled(k) /\ oauthFlow.waits[k].timer /\ ~oauthFlow'.waits[k].timer)
          => ( /\ oauthFlow'.listening = oauthFlow.listening
               /\ oauthFlow'.server = oauthFlow.server ) ]_vars

\* a GoogleDriveProvider constructed for another database (another dbName)
\* with the credentials of the same account, and the same provider at its
\* next call, after a call that left the outcome o
OtherProvider(pick) ==
  [Provider(pick) EXCEPT !.dbName = "other", !.rootFolderId = Null]
OtherProviderAfter(o, pick) ==
  [OtherProvider(pick) EXCEPT !.drive = o.drive, !.rootFolderId = o.rootFolderId]

\* the files of the account and what they hold
FilesOf(d) == {<<d[i].name, d[i].parent, d[i].content>> : i \in {j \in DOMAIN d : ~d[j].folder}}

\* C39: in an account where every file was put by providers of the
\* database "db", a provider of another database finds no current.db and no
\* metadata.json, at its first call and at its second; its deleteFile
\* removes nothing, and its uploadFile leaves every file there is as it is.
C39_BackupsIsolated ==
  \A pick \in Choices, fileName \in {CurrentDb, MetadataJson} :
    LET first == Drive_fileExists(OtherProvider(pick), fileName)
        next == OtherProviderAfter(first, pick)
        exists == Drive_fileExists(next, fileName)
        deleted == Drive_deleteFile(next, fileName)
        uploaded == Drive_uploadFile(next, fileName, Blob(<<0>>))
    IN ~first.threw
         => /\ ~first.result.exists
            /\ ~exists.result.exists
            /\ FilesOf(deleted.drive) = FilesOf(drive)
            /\ FilesOf(drive) \subseteq FilesOf(uploaded.drive)

====
